---- MODULE Spec2Model ----
(***************************************************************************)
(* Model of the bfcalc value engine (bfcalc.c): the pending-error slot,    *)
(* the scalar kinds Bool/Integer/Fraction/Decimal/Float/Complex with their *)
(* promotion and dispatch rules, the reference-counted Tensor/Array        *)
(* containers, the variable table and the eval_buf read-eval-print step.   *)
(*                                                                         *)
(* Conventions.                                                            *)
(*  - A value is a record with a field tag.  Scalars are immediate.  A     *)
(*    Tensor that is a temporary of an expression is held by its contents  *)
(*    (elem, dims, tab); a Tensor or Array that a statement allocates and  *)
(*    binds to a name is a reference (field id) into heap, where the       *)
(*    reference count, the element type and the cells live.                *)
(*  - The sentinel BC_EXCEPTION (a NULL pointer in the source) is EXC.     *)
(*  - A function of the source that dereferences NULL, calls abort() or    *)
(*    fails an assert() ends the process: its result is CRASH, which       *)
(*    every caller passes on unchanged.                                    *)
(*  - A value function returns a record [v, e]: v is the returned value    *)
(*    and e the last write it made to the pending-error slot (NoErr when   *)
(*    it made none).                                                       *)
(*  - Decimal and Float payloads are exact rationals num/den (the bignum   *)
(*    library is external); den = 0 encodes +Inf, -Inf (num = 1, -1) and   *)
(*    NaN (num = 0).                                                       *)
(***************************************************************************)
EXTENDS Integers, Sequences, FiniteSets, TLC

VARIABLES
    has_error,    \* ctx->has_error
    error_type,   \* ctx->error_type
    error_msg,    \* ctx->error_msg
    heap,         \* the Tensor and Array objects, by address
    variables,    \* ctx->var_list: the value bound to each name
    cmd,          \* the command line read and not yet evaluated, or NoCmd
    last,         \* the command line evaluated last, or NoCmd
    val,          \* what eval_formula returned for it
    raised,       \* history: the slot write made during that evaluation
    reported,     \* what bc_get_error copied out after it
    nsteps,       \* number of command lines evaluated so far
    proc          \* main: argv, the locals of main and where the process is

vars == <<has_error, error_type, error_msg, heap, variables, cmd, last, val,
          raised, reported, nsteps, proc>>

(***************************************************************************)
(* Bounds of the model.                                                    *)
(***************************************************************************)
\* integer literals range over -MaxLit..MaxLit
MaxLit == 2
\* number of command lines in one session
MaxSteps == 5
\* number of addresses for Tensor and Array objects
MaxObjs == 10
\* iterations of the continued-fraction loop of cval_bestappr that are followed
MaxIter == 6
\* the longest exponential series that is computed
MaxExpLen == 6
\* the longest command line (argv without the program name)
MaxArgs == 4
\* tensor subscripts range over -MaxIdx..MaxIdx
MaxIdx == 4
\* the uninitialised entries of dims[] range over 0..MaxJunk
MaxJunk == 3
\* the Integer arguments of gcd range over -MaxGcd..MaxGcd
MaxGcd == 6
\* the arguments of isprime range over -3..MaxPrime and a few larger ones
MaxPrime == 120

(***************************************************************************)
(* Kind tags and type descriptors.                                         *)
(***************************************************************************)
\* BCTypeEnum: the kinds in promotion order, by name
ctype_str == [i \in 0..14 |->
    CASE i = 0 -> "Bool" [] i = 1 -> "Int" [] i = 2 -> "Frac" [] i = 3 -> "Dec"
      [] i = 4 -> "Float" [] i = 5 -> "Complex" [] i = 6 -> "Poly"
      [] i = 7 -> "RFrac" [] i = 8 -> "Ser" [] i = 9 -> "Tensor"
      [] i = 10 -> "Array" [] i = 11 -> "Function" [] i = 12 -> "String"
      [] i = 13 -> "Null" [] OTHER -> "Range"]

\* the BCTypeEnum number of a tag name
TagNum(s) == CHOOSE i \in 0..14 : ctype_str[i] = s

\* a NULL BCType pointer
NoType == [tag |-> "NULLPTR"]

\* ctx->def_type[tag]: a type descriptor without element type
def_type(tag) == [tag |-> tag, elem |-> NoType]

has_elem_type(tag) == tag \in {"Complex", "Poly", "RFrac", "Ser", "Tensor"}

\* ctype_new(ctx, tag, elem_type)
ctype_new(tag, elem_type) == [tag |-> tag, elem |-> elem_type]

(***************************************************************************)
(* The sentinel, process death, and the error slot.                        *)
(***************************************************************************)
BC_EXCEPTION == [tag |-> "EXC"]
CRASH == [tag |-> "CRASH"]
\* a result the rational abstraction of Decimal and Float cannot express
\* (inexact quotient, transcendental function, non-finite integer)
UNMODELLED == [tag |-> "UNMODELLED"]

cval_is_error(v) == v = BC_EXCEPTION
\* the computation does not continue past this result
Stop(v) == v = CRASH \/ v = UNMODELLED
\* an argument the callee cannot look at: NULL, or the caller is already gone
Bad(v) == Stop(v) \/ v = BC_EXCEPTION
\* the outcome of looking at such an argument
Die(v) == IF Stop(v) THEN v ELSE CRASH
Die2(v1, v2) == IF Bad(v1) THEN Die(v1) ELSE Die(v2)

NoErr == [set |-> FALSE, type |-> "none", msg |-> ""]

\* the later of two slot writes
Then(e1, e2) == IF e2.set THEN e2 ELSE e1

R(v, e) == [v |-> v, e |-> e]
Ok(v) == R(v, NoErr)
\* the callee's result r, after the writes e made before the call
After(e, r) == R(r.v, Then(e, r.e))
\* r is the sentinel or the end of the computation
Fail(r) == Bad(r.v)

\* cval_throw_error_buf: set the slot, return the sentinel
cval_throw_error_buf(type, msg) ==
    R(BC_EXCEPTION, [set |-> TRUE, type |-> type, msg |-> msg])

cval_type_error(msg) == cval_throw_error_buf("TypeError", msg)
cval_range_error(msg) == cval_throw_error_buf("RangeError", msg)

(***************************************************************************)
(* Arithmetic of the bignum library, on exact integers and rationals.      *)
(***************************************************************************)
Abs(x) == IF x < 0 THEN -x ELSE x
Sgn(x) == IF x > 0 THEN 1 ELSE IF x < 0 THEN -1 ELSE 0

\* bf_divrem(q, r, a, b, ..., BF_RNDZ): quotient rounded toward zero, b # 0
TruncDiv(a, b) == Sgn(a) * Sgn(b) * (Abs(a) \div Abs(b))
\* quotient rounded toward minus infinity (BF_RNDD), b # 0
FloorDiv(a, b) == IF b > 0 THEN a \div b ELSE (-a) \div (-b)
\* quotient rounded toward plus infinity (BF_RNDU), b # 0
CeilDiv(a, b) == -FloorDiv(-a, b)
\* quotient rounded to nearest, ties away from zero (BF_RNDNA), b # 0
RoundDiv(a, b) == Sgn(a) * Sgn(b) * ((2 * Abs(a) + Abs(b)) \div (2 * Abs(b)))
\* bf_rem(r, a, b, ..., BF_DIVREM_EUCLIDIAN): 0 <= r < |b|, b # 0
EuclidRem(a, b) == a % Abs(b)

\* the quotient of a by b under the rounding mode of a rounding operation
RndDiv(op, a, b) ==
    CASE op = "TRUNC" -> TruncDiv(a, b)
      [] op = "FLOOR" -> FloorDiv(a, b)
      [] op = "CEIL" -> CeilDiv(a, b)
      [] OTHER -> RoundDiv(a, b)

RECURSIVE IPow(_, _)
\* bf_pow on integers, n >= 0
IPow(a, n) == IF n = 0 THEN 1 ELSE a * IPow(a, n - 1)

RECURSIVE NatGcd(_, _)
NatGcd(a, b) == IF b = 0 THEN a ELSE NatGcd(b, a % b)

\* a numeric scalar: Bool and Int keep den = 1
Num(tag, num, den) == [tag |-> tag, num |-> num, den |-> den]

\* the rational n/d in lowest terms with d >= 0; d = 0 gives Inf, -Inf or NaN
Q(n, d) ==
    IF d = 0 THEN [num |-> Sgn(n), den |-> 0]
    ELSE LET g == NatGcd(Abs(n), Abs(d))
         IN [num |-> Sgn(d) * (n \div g), den |-> Abs(d) \div g]

QOf(v) == [num |-> v.num, den |-> v.den]
IsFinite(q) == q.den # 0
IsNaN(q) == q.den = 0 /\ q.num = 0

QAdd(a, b) ==
    IF IsFinite(a) /\ IsFinite(b) THEN Q(a.num * b.den + b.num * a.den, a.den * b.den)
    ELSE IF IsNaN(a) \/ IsNaN(b) THEN Q(0, 0)
    ELSE IF IsFinite(a) THEN b
    ELSE IF IsFinite(b) THEN a
    ELSE IF a.num = b.num THEN a ELSE Q(0, 0)
QNeg(a) == [num |-> -a.num, den |-> a.den]
QSub(a, b) == QAdd(a, QNeg(b))
QMul(a, b) ==
    IF IsNaN(a) \/ IsNaN(b) THEN Q(0, 0) ELSE Q(a.num * b.num, a.den * b.den)
QDiv(a, b) ==
    IF IsNaN(a) \/ IsNaN(b) THEN Q(0, 0)
    ELSE IF ~IsFinite(a) /\ ~IsFinite(b) THEN Q(0, 0)
    ELSE IF ~IsFinite(b) THEN Q(0, 1)
    ELSE IF ~IsFinite(a) THEN Q(a.num * (IF b.num < 0 THEN -1 ELSE 1), 0)
    ELSE Q(a.num * b.den, a.den * b.num)
QLt(a, b) ==
    IF IsNaN(a) \/ IsNaN(b) THEN FALSE
    ELSE IF IsFinite(a) /\ IsFinite(b) THEN a.num * b.den < b.num * a.den
    ELSE IF IsFinite(a) THEN b.num > 0
    ELSE IF IsFinite(b) THEN a.num < 0
    ELSE a.num < b.num
QEq(a, b) == ~IsNaN(a) /\ ~IsNaN(b) /\ a = b
QLe(a, b) == QLt(a, b) \/ QEq(a, b)

\* the values a 53-bit binary float and a 16-digit decimal both hold exactly
\* within the model's range: dyadic rationals, the infinities and NaN
Exact(q) == q.den \in {0, 1, 2, 4, 8, 16}

(***************************************************************************)
(* Values.                                                                 *)
(***************************************************************************)
cbool_new(b) == Num("Bool", IF b THEN 1 ELSE 0, 1)
cint_from_int(n) == Num("Int", n, 1)
cnull_new == [tag |-> "Null"]
cstring_new(str) == [tag |-> "String", str |-> str]

\* cval_type(v): the tag number; v is not NULL
cval_type(v) == TagNum(v.tag)
max_int(a, b) == IF a < b THEN b ELSE a

\* v->type
TypeOf(v) == IF has_elem_type(v.tag) THEN ctype_new(v.tag, v.elem) ELSE def_type(v.tag)

\* Calls between the functions of the source go by name through dispatch,
\* the recursive operator defined after them: call2("cfrac_new", n, d) is
\* the call cfrac_new(n, d).
RECURSIVE dispatch(_)
call1(f, a) == dispatch(<<f, a>>)
call2(f, a, b) == dispatch(<<f, a, b>>)
call3(f, a, b, c) == dispatch(<<f, a, b, c>>)
call4(f, a, b, c, d) == dispatch(<<f, a, b, c, d>>)

cval_add(v1, v2) == call3("cval_op2", v1, v2, "ADD")
cval_sub(v1, v2) == call3("cval_op2", v1, v2, "SUB")
cval_mul(v1, v2) == call3("cval_op2", v1, v2, "MUL")
cval_div(v1, v2) == call3("cval_op2", v1, v2, "DIV")
cval_mod(v1, v2) == call3("cval_op2", v1, v2, "MOD")
cval_frac_div(v1, v2) == call3("cval_op2", v1, v2, "FRAC_DIV")
cval_cmp_eq(v1, v2) == call3("cval_op2", v1, v2, "CMP_EQ")
cval_cmp_lt(v1, v2) == call3("cval_op2", v1, v2, "CMP_LT")
cval_cmp_le(v1, v2) == call3("cval_op2", v1, v2, "CMP_LE")
cval_neg(v1) == call2("cval_op1", v1, "NEG")
cval_abs(v1) == call2("cval_op1", v1, "ABS")
cval_trunc(v1) == call2("cval_op1", v1, "TRUNC")
cval_floor(v1) == call2("cval_op1", v1, "FLOOR")

\* apply F to the result of r unless the computation has ended; F sees NULL
Bind(r, F(_)) == IF Stop(r.v) THEN r ELSE After(r.e, F(r.v))
\* apply F to the results of r1 and r2, evaluated in this order
Bind2(r1, r2, F(_, _)) ==
    IF Stop(r1.v) THEN r1
    ELSE IF Stop(r2.v) THEN After(r1.e, r2)
    ELSE After(Then(r1.e, r2.e), F(r1.v, r2.v))

(***************************************************************************)
(* Integer.                                                                *)
(***************************************************************************)
\* convert to integer by truncation
to_cint(v1) ==
    IF Bad(v1) THEN Ok(Die(v1))
    ELSE CASE v1.tag = "Int" -> Ok(v1)
           [] v1.tag = "Bool" -> Ok(cint_from_int(v1.num))
           [] v1.tag = "Frac" ->
                call3("cint_op2", cint_from_int(v1.num), cint_from_int(v1.den), "DIV")
           [] v1.tag \in {"Dec", "Float"} ->
                IF v1.den = 0 THEN Ok(UNMODELLED)
                ELSE Ok(cint_from_int(TruncDiv(v1.num, v1.den)))
           [] OTHER -> cval_type_error("cannot convert to integer")

cint_op2(v1, v2, op) ==
    LET r1 == call1("to_cint", v1) IN
    IF Fail(r1) THEN r1 ELSE
    LET r2 == call1("to_cint", v2) IN
    IF Fail(r2) THEN After(r1.e, r2) ELSE
    LET a == r1.v.num
        b == r2.v.num
    IN CASE op = "ADD" -> Ok(cint_from_int(a + b))
         [] op = "SUB" -> Ok(cint_from_int(a - b))
         [] op = "MUL" -> Ok(cint_from_int(a * b))
         [] op = "DIV" ->
              IF b = 0 THEN cval_range_error("division by zero")
              ELSE Ok(cint_from_int(TruncDiv(a, b)))
         [] op = "MOD" ->
              IF b = 0 THEN cval_range_error("division by zero")
              ELSE Ok(cint_from_int(EuclidRem(a, b)))
         [] op = "POW" ->
              IF b < 0 THEN cval_range_error("power yields non integer result")
              ELSE Ok(cint_from_int(IPow(a, b)))
         [] op = "CMP_EQ" -> Ok(cbool_new(a = b))
         [] op = "CMP_LT" -> Ok(cbool_new(a < b))
         [] op = "CMP_LE" -> Ok(cbool_new(a <= b))
         [] op = "FRAC_DIV" -> call2("cfrac_new", r1.v, r2.v)
         [] OTHER -> cval_type_error("unsupported operation")

cint_op1(v1, op) ==
    CASE op = "NEG" -> Ok(cint_from_int(-v1.num))
      [] op = "ABS" -> Ok(cint_from_int(Abs(v1.num)))
      [] OTHER -> Ok(CRASH)

\* the Bool that cval_cmp_eq_int hands back as a C int, with the slot write
\* it leaves behind when the comparison failed
cval_cmp_eq_int(a, b) ==
    IF Bad(a) THEN Ok(Die(a))
    ELSE LET r == call3("cval_op2", a, cint_from_int(b), "CMP_EQ")
         IN IF cval_is_error(r.v) THEN R(cbool_new(FALSE), r.e) ELSE r

cval_cmp_lt_int(a, b) ==
    IF Bad(a) THEN Ok(Die(a))
    ELSE LET r == call3("cval_op2", a, cint_from_int(b), "CMP_LT")
         IN IF cval_is_error(r.v) THEN R(cbool_new(FALSE), r.e) ELSE r

RECURSIVE cint_gcd_loop(_, _)
\* the while loop of cint_gcd, on the payloads
cint_gcd_loop(a, b) == IF b = 0 THEN a ELSE cint_gcd_loop(b, EuclidRem(a, b))

cint_gcd(a, b) ==
    IF Bad(a) \/ Bad(b) THEN Ok(Die2(a, b))
    ELSE IF a.tag # "Int" \/ b.tag # "Int" THEN cval_type_error("integer expected")
    ELSE Ok(cint_from_int(cint_gcd_loop(a.num, b.num)))

(***************************************************************************)
(* Fraction.                                                               *)
(***************************************************************************)
\* no check: num and den are Int values
cfrac_new2(num, den) ==
    IF Bad(num) \/ Bad(den) THEN Ok(Die2(num, den))
    ELSE IF num.tag # "Int" \/ den.tag # "Int" THEN Ok(CRASH)
    ELSE Ok(Num("Frac", num.num, den.num))

\* cfrac_new without the division by the gcd
cfrac_new_unreduced(num, den) ==
    IF Bad(num) \/ Bad(den) THEN Ok(Die2(num, den))
    ELSE IF num.tag # "Int" \/ den.tag # "Int" THEN cval_type_error("integer expected")
    ELSE IF call2("cval_cmp_eq_int", den, 0).v.num = 1 THEN cval_range_error("division by zero")
    ELSE LET neg == call2("cval_cmp_lt_int", den, 0).v.num = 1
             num1 == IF neg THEN cval_neg(num).v ELSE num
             den1 == IF neg THEN cval_neg(den).v ELSE den
         IN cfrac_new2(num1, den1)

\* return an irreducible fraction (always positive denominator)
cfrac_new(num, den) ==
    IF Bad(num) \/ Bad(den) THEN Ok(Die2(num, den))
    ELSE IF num.tag # "Int" \/ den.tag # "Int" THEN cval_type_error("integer expected")
    ELSE IF call2("cval_cmp_eq_int", den, 0).v.num = 1 THEN cval_range_error("division by zero")
    ELSE LET neg == call2("cval_cmp_lt_int", den, 0).v.num = 1
             num1 == IF neg THEN cval_neg(num).v ELSE num
             den1 == IF neg THEN cval_neg(den).v ELSE den
             g == call2("cint_gcd", num1, den1).v
             red == call2("cval_cmp_eq_int", g, 1).v.num # 1
             num2 == IF red THEN call3("cint_op2", num1, g, "DIV").v ELSE num1
             den2 == IF red THEN call3("cint_op2", den1, g, "DIV").v ELSE den1
         IN cfrac_new2(num2, den2)

\* num can be integer or fraction
to_cfrac(v1) ==
    IF Bad(v1) THEN Ok(Die(v1))
    ELSE CASE v1.tag = "Frac" -> Ok(v1)
           [] v1.tag = "Bool" -> Bind(call1("to_cint", v1), LAMBDA n : cfrac_new2(n, cint_from_int(1)))
           [] v1.tag = "Int" -> cfrac_new2(v1, cint_from_int(1))
           [] OTHER -> cval_type_error("integer or fraction expected")

\* u.frac.num and u.frac.den of a Fraction, as Int values
FracNum(v) == cint_from_int(v.num)
FracDen(v) == cint_from_int(v.den)

cfrac_op2(v1, v2, op) ==
    LET r1 == call1("to_cfrac", v1)
        r2 == call1("to_cfrac", v2)
    IN
    IF Stop(r1.v) THEN r1
    ELSE IF Stop(r2.v) THEN After(r1.e, r2)
    ELSE IF Bad(r1.v) \/ Bad(r2.v) THEN R(CRASH, Then(r1.e, r2.e))
    ELSE
    LET f1 == r1.v
        f2 == r2.v
        n1d2 == cval_mul(FracNum(f1), FracDen(f2))
        n2d1 == cval_mul(FracNum(f2), FracDen(f1))
        d1d2 == cval_mul(FracDen(f1), FracDen(f2))
        n1n2 == cval_mul(FracNum(f1), FracNum(f2))
        d1n2 == cval_mul(FracDen(f1), FracNum(f2))
    IN CASE op = "ADD" -> Bind2(Bind2(n1d2, n2d1, cval_add), d1d2, cfrac_new)
         [] op = "SUB" -> Bind2(Bind2(n1d2, n2d1, cval_sub), d1d2, cfrac_new)
         [] op = "MUL" -> Bind2(n1n2, d1d2, cfrac_new)
         [] op \in {"DIV", "FRAC_DIV"} -> Bind2(n1d2, d1n2, cfrac_new)
         [] op = "MOD" ->
              LET q == Bind(cval_div(f1, f2), cval_floor)
              IN Bind(Bind(q, LAMBDA x : cval_mul(x, f2)), LAMBDA y : cval_sub(f1, y))
         [] op \in {"CMP_EQ", "CMP_LT", "CMP_LE"} ->
              Bind2(n1d2, d1n2, LAMBDA x, y : call3("cint_op2", x, y, op))
         [] OTHER -> cval_type_error("unsupported operation")

cfrac_op1(v1, op) ==
    CASE op = "NEG" -> Bind(cval_neg(FracNum(v1)), LAMBDA n : cfrac_new2(n, FracDen(v1)))
      [] op = "ABS" -> Bind(cval_abs(FracNum(v1)), LAMBDA n : cfrac_new2(n, FracDen(v1)))
      [] op \in {"TRUNC", "FLOOR", "CEIL", "ROUND"} ->
           IF v1.den = 0 THEN Ok(UNMODELLED)
           ELSE Ok(cint_from_int(RndDiv(op, v1.num, v1.den)))
      [] OTHER -> Ok(CRASH)

(***************************************************************************)
(* Decimal and Float.                                                      *)
(***************************************************************************)
\* the result q of a bignum operation, as a value of the given kind
Rnd(tag, q) == IF Exact(q) THEN Num(tag, q.num, q.den) ELSE UNMODELLED

\* bf_rem / bfdec_rem with BF_DIVREM_EUCLIDIAN
QRem(a, b) ==
    IF ~IsFinite(a) \/ ~IsFinite(b) THEN UNMODELLED
    ELSE IF b.num = 0 THEN Q(0, 0)
    ELSE LET k == FloorDiv(a.num * b.den, a.den * Abs(b.num))
         IN QSub(a, QMul(Q(Abs(b.num), b.den), Q(k, 1)))

\* bf_pow, for an integral exponent
QPow(a, b) ==
    IF ~IsFinite(a) \/ ~IsFinite(b) \/ b.den # 1 THEN UNMODELLED
    ELSE IF b.num >= 0 THEN Q(IPow(a.num, b.num), IPow(a.den, b.num))
    ELSE Q(IPow(a.den, -b.num), IPow(a.num, -b.num))

\* the arithmetic shared by cdec_op2 and cfloat_op2, on the payloads
num_op2(tag, a, b, op) ==
    CASE op = "ADD" -> Ok(Rnd(tag, QAdd(a, b)))
      [] op = "SUB" -> Ok(Rnd(tag, QSub(a, b)))
      [] op = "MUL" -> Ok(Rnd(tag, QMul(a, b)))
      [] op = "DIV" -> Ok(Rnd(tag, QDiv(a, b)))
      [] op = "MOD" ->
           LET q == QRem(a, b) IN Ok(IF q = UNMODELLED THEN q ELSE Rnd(tag, q))
      [] op = "POW" ->
           LET q == QPow(a, b) IN Ok(IF q = UNMODELLED THEN q ELSE Rnd(tag, q))
      [] op = "CMP_EQ" -> Ok(cbool_new(QEq(a, b)))
      [] op = "CMP_LT" -> Ok(cbool_new(QLt(a, b)))
      [] op = "CMP_LE" -> Ok(cbool_new(QLe(a, b)))
      [] OTHER -> cval_type_error("unsupported operation")

\* the arithmetic shared by cdec_op1 and cfloat_op1, on the payload
num_op1(tag, v1, op) ==
    CASE op = "NEG" -> Ok(Num(tag, -v1.num, v1.den))
      [] op = "ABS" -> Ok(Num(tag, Abs(v1.num), v1.den))
      [] op \in {"TRUNC", "FLOOR", "CEIL", "ROUND"} ->
           IF v1.den = 0 THEN Ok(Num(tag, v1.num, v1.den))
           ELSE Ok(Num(tag, RndDiv(op, v1.num, v1.den), 1))
      [] OTHER -> Ok(UNMODELLED)

to_dec1(v1, allow_float) ==
    IF Bad(v1) THEN Ok(Die(v1))
    ELSE CASE v1.tag = "Bool" -> Ok(Num("Dec", v1.num, 1))
           [] v1.tag = "Int" -> Ok(Num("Dec", v1.num, 1))
           [] v1.tag = "Dec" -> Ok(v1)
           [] v1.tag = "Frac" -> call3("cdec_op2", FracNum(v1), FracDen(v1), "DIV")
           [] v1.tag = "Float" /\ allow_float -> Ok(Num("Dec", v1.num, v1.den))
           [] OTHER -> cval_type_error("cannot convert to decimal")

to_dec(v1) == call2("to_dec1", v1, FALSE)
cdec_ctor(v1) == call2("to_dec1", v1, TRUE)

cdec_op2(v1, v2, op) ==
    LET r1 == to_dec(v1) IN
    IF Fail(r1) THEN r1 ELSE
    LET r2 == to_dec(v2) IN
    IF Fail(r2) THEN After(r1.e, r2) ELSE
    call4("num_op2", "Dec", QOf(r1.v), QOf(r2.v), op)

cdec_op1(v1, op) == call3("num_op1", "Dec", v1, op)

\* the Bool case allocates with cdec_new: the result carries the Decimal tag
to_float1(v1, allow_dec) ==
    IF Bad(v1) THEN Ok(Die(v1))
    ELSE CASE v1.tag = "Float" -> Ok(v1)
           [] v1.tag = "Bool" -> Ok(Num("Dec", v1.num, 1))
           [] v1.tag = "Int" -> Ok(Num("Float", v1.num, 1))
           [] v1.tag = "Frac" -> call3("cfloat_op2", FracNum(v1), FracDen(v1), "DIV")
           [] v1.tag = "Dec" /\ allow_dec -> Ok(Num("Float", v1.num, v1.den))
           [] OTHER -> cval_type_error("cannot convert to float")

to_float(v1) == call2("to_float1", v1, FALSE)
\* a Decimal cell that to_float1 filled with the binary limbs of 1 reads, as
\* a decimal, as a number the rationals of the model do not hold
bin_in_dec(r) ==
    IF ~Bad(r.v) /\ r.v.tag = "Dec" /\ r.v.num # 0 THEN R(UNMODELLED, r.e) ELSE r

cfloat_ctor(v1) == bin_in_dec(call2("to_float1", v1, TRUE))

\* the operands are read through u.cfloat whatever their tag
cfloat_op2(v1, v2, op) ==
    LET r1 == to_float(v1) IN
    IF Fail(r1) THEN r1 ELSE
    LET r2 == to_float(v2) IN
    IF Fail(r2) THEN After(r1.e, r2) ELSE
    call4("num_op2", "Float", QOf(r1.v), QOf(r2.v), op)

cfloat_op1(v1, op) == call3("num_op1", "Float", v1, op)

(***************************************************************************)
(* Result type of a binary operation.                                      *)
(***************************************************************************)
is_real_number(t) == t.tag \in {"Int", "Frac", "Dec", "Float"}

RECURSIVE same_type(_, _)
\* t1 and t2 are not NULL
same_type(t1, t2) ==
    IF t1.tag # t2.tag THEN FALSE
    ELSE IF t1.elem # NoType THEN t2.elem # NoType /\ same_type(t1.elem, t2.elem)
    ELSE TRUE

\* the type of the result, NoType for NULL; reading a NULL type ends the process
get_op2_type(ta, tb, op) ==
    IF ta = CRASH \/ tb = CRASH \/ ta = NoType \/ tb = NoType THEN Ok(CRASH)
    ELSE IF op \in {"CMP_EQ", "CMP_LT", "CMP_LE"} THEN Ok(def_type("Bool"))
    ELSE
    LET swap == TagNum(ta.tag) < TagNum(tb.tag)
        t1 == IF swap THEN tb ELSE ta
        t2 == IF swap THEN ta ELSE tb
    IN
    IF op = "DIV" /\ t1.tag = "Int" THEN Ok(def_type("Dec"))
    ELSE IF op = "FRAC_DIV" /\ t1.tag = "Int" THEN Ok(def_type("Frac"))
    ELSE IF op = "POW" /\ t1.tag = "Frac" THEN Ok(def_type("Dec"))
    ELSE IF t1.tag = "Bool" THEN Ok(def_type("Int"))
    ELSE IF same_type(t1, t2) THEN Ok(t1)
    ELSE IF t1.tag = "Float" /\ t2.tag = "Dec"
         THEN R(NoType, cval_type_error("float and decimal are not compatible").e)
    ELSE IF TagNum(t1.tag) <= TagNum("Float") THEN Ok(t1)
    ELSE IF t1.tag \in {"Complex", "Poly", "Ser", "RFrac"}
         THEN LET t3 == IF t2.tag = t1.tag THEN t2.elem ELSE t2
                  r == call3("get_op2_type", t1.elem, t3, op)
              IN IF r.v = CRASH THEN r ELSE R(ctype_new(t1.tag, r.v), r.e)
    ELSE R(NoType, cval_type_error("incompatible types").e)

(***************************************************************************)
(* Complex.                                                                *)
(***************************************************************************)
complex_new2(re, im, el) ==
    Bind2(call2("cval_convert", re, el), call2("cval_convert", im, el),
          LAMBDA x, y : Ok([tag |-> "Complex", elem |-> el, re |-> x, im |-> y]))

complex_new(re, im) ==
    IF Bad(re) \/ Bad(im) THEN Ok(Die2(re, im))
    ELSE IF ~is_real_number(TypeOf(re)) \/ ~is_real_number(TypeOf(im))
         THEN cval_type_error("incompatible types for complex data")
    ELSE LET t == call3("get_op2_type", TypeOf(re), TypeOf(im), "ADD")
         IN IF t.v = NoType
            THEN After(t.e, cval_type_error("incompatible types for complex data"))
            ELSE After(t.e, call3("complex_new2", re, im, t.v))

to_complex(v1) ==
    IF Bad(v1) THEN Ok(Die(v1))
    ELSE IF v1.tag = "Complex" THEN Ok(v1)
    ELSE call2("complex_new", v1, cint_from_int(0))

complex_norm2(v1) ==
    LET c == call1("to_complex", v1) IN
    IF Fail(c) THEN c
    ELSE After(c.e, Bind2(cval_mul(c.v.re, c.v.re), cval_mul(c.v.im, c.v.im), cval_add))

complex_inverse(v1) ==
    LET c == call1("to_complex", v1) IN
    IF Fail(c) THEN c ELSE
    LET n == call1("complex_norm2", c.v) IN
    IF Stop(n.v) THEN After(c.e, n)
    ELSE After(Then(c.e, n.e),
               Bind2(cval_div(c.v.re, n.v), Bind(cval_div(c.v.im, n.v), cval_neg),
                     complex_new))

\* cval_cmp_eq2: the comparison result is read without a check for NULL
cval_cmp_eq2(v1, v2) ==
    LET r == call3("cval_op2", v1, v2, "CMP_EQ")
    IN IF Stop(r.v) THEN r
       ELSE IF cval_is_error(r.v) \/ r.v.tag # "Bool" THEN R(CRASH, r.e)
       ELSE r

complex_op2(v1, v2, op) ==
    LET c1 == call1("to_complex", v1) IN
    IF Fail(c1) THEN c1 ELSE
    LET c2 == call1("to_complex", v2) IN
    IF Fail(c2) THEN After(c1.e, c2) ELSE
    LET a == c1.v
        b == c2.v
        e == Then(c1.e, c2.e)
    IN After(e,
       CASE op = "ADD" -> Bind2(cval_add(a.re, b.re), cval_add(a.im, b.im), complex_new)
         [] op = "SUB" -> Bind2(cval_sub(a.re, b.re), cval_sub(a.im, b.im), complex_new)
         [] op = "MUL" ->
              Bind2(Bind2(cval_mul(a.re, b.re), cval_mul(a.im, b.im), cval_sub),
                    Bind2(cval_mul(a.re, b.im), cval_mul(a.im, b.re), cval_add),
                    complex_new)
         [] op \in {"DIV", "FRAC_DIV"} ->
              IF b.elem.tag = "Int" /\ (op = "FRAC_DIV" \/ a.elem.tag = "Frac")
              THEN Ok(UNMODELLED)
              ELSE Bind(call1("complex_inverse", b), LAMBDA x : call3("complex_op2", a, x, "MUL"))
         [] op = "POW" -> Ok(UNMODELLED)
         [] op = "CMP_EQ" ->
              LET x == call2("cval_cmp_eq2", a.re, b.re) IN
              IF Stop(x.v) THEN x
              ELSE IF x.v.num = 0 THEN x
              ELSE After(x.e, call2("cval_cmp_eq2", a.im, b.im))
         [] op \in {"CMP_LT", "CMP_LE"} ->
              cval_type_error("complex numbers are not comparable")
         [] OTHER -> cval_type_error("unsupported operation"))

complex_op1(v1, op) ==
    CASE op \in {"NEG", "TRUNC", "FLOOR", "CEIL", "ROUND"} ->
           Bind2(call2("cval_op1", v1.re, op), call2("cval_op1", v1.im, op), complex_new)
      [] OTHER -> Ok(UNMODELLED)

(***************************************************************************)
(* String.                                                                 *)
(***************************************************************************)
cstring_concat(v1, v2) == Ok(cstring_new(v1.str \o v2.str))

(***************************************************************************)
(* Tensor, as a value: element type, dimensions (dims[1] is the source's   *)
(* dims[0], the axis that varies fastest) and cells.                       *)
(***************************************************************************)
MAX_DIMS == 4

RECURSIVE tensor_size(_)
\* tr->size
tensor_size(dims) == IF dims = <<>> THEN 1 ELSE Head(dims) * tensor_size(Tail(dims))

Tensor(elem_type, dims, tab) ==
    [tag |-> "Tensor", elem |-> elem_type, dims |-> dims, tab |-> tab]

tensor_new(elem_type, dims) ==
    IF Len(dims) > MAX_DIMS THEN cval_type_error("too many axis")
    ELSE IF elem_type = NoType \/ elem_type = CRASH THEN Ok(CRASH)
    ELSE IF elem_type.tag \notin {"Int", "Frac", "Dec", "Float", "Complex", "Poly", "RFrac", "Ser"}
         THEN cval_type_error("only numeric types are allowed in tensors")
    ELSE LET z == call2("cval_convert", cint_from_int(0), elem_type)
         IN IF Stop(z.v) THEN z
            ELSE R(Tensor(elem_type, dims, [i \in 1..tensor_size(dims) |-> z.v]), z.e)

\* the first cell whose computation did not give a value, 0 when none
FirstFail(cells) ==
    IF \E i \in DOMAIN cells : Fail(cells[i])
    THEN CHOOSE i \in DOMAIN cells :
            Fail(cells[i]) /\ \A j \in DOMAIN cells : Fail(cells[j]) => i <= j
    ELSE 0

\* the loop that fills the cells of the new tensor v from computed cells
tensor_fill(v, cells) ==
    IF cval_is_error(v.v) THEN R(CRASH, v.e)
    ELSE IF Stop(v.v) THEN v
    ELSE LET k == FirstFail(cells)
         IN IF k # 0 THEN After(v.e, cells[k])
            ELSE R([v.v EXCEPT !.tab = [i \in DOMAIN cells |-> cells[i].v]], v.e)

tensor_op1(v1, op) ==
    LET t == IF op \in {"TRUNC", "FLOOR", "CEIL", "ROUND"} /\ v1.elem.tag = "Frac"
             THEN def_type("Int")
             ELSE IF op = "ABS" /\ v1.elem.tag = "Complex" THEN v1.elem.elem
             ELSE v1.elem
    IN IF op \in {"TRUNC", "FLOOR", "CEIL", "ROUND"} /\ v1.elem.tag = "Complex"
       THEN Ok(UNMODELLED)
       ELSE call2("tensor_fill", call2("tensor_new", t, v1.dims),
                        [i \in DOMAIN v1.tab |-> call2("cval_op1", v1.tab[i], op)])

\* strides[i] of tensor_broadcast: 0 on an axis that v1 repeats along
tensor_stride(v1, i) ==
    IF i > Len(v1.dims) \/ v1.dims[i] = 1 THEN 0
    ELSE tensor_size(SubSeq(v1.dims, 1, i - 1))

\* a_pos[j] at cell i (counted from 0) of a tensor of dimensions dims
tensor_pos(dims, i, j) == (i \div tensor_size(SubSeq(dims, 1, j - 1))) % dims[j]

RECURSIVE tensor_src_pos(_, _, _, _)
\* pos: the cell of v1 that cell i of the broadcast tensor copies
tensor_src_pos(v1, dims, i, j) ==
    IF j > Len(dims) THEN 0
    ELSE tensor_stride(v1, j) * tensor_pos(dims, i, j) + tensor_src_pos(v1, dims, i, j + 1)

\* change the dimensions of v1 to dims by broadcasting the elements
tensor_broadcast(v1, dims) ==
    IF v1.dims = dims THEN v1
    ELSE IF \E i \in 1..Len(dims) : tensor_stride(v1, i) # 0 /\ dims[i] # v1.dims[i]
         THEN CRASH
    ELSE Tensor(v1.elem, dims,
                [i \in 1..tensor_size(dims) |->
                    v1.tab[tensor_src_pos(v1, dims, i - 1, 1) + 1]])

to_tensor(v1) ==
    IF Bad(v1) THEN Ok(Die(v1))
    ELSE IF v1.tag = "Tensor" THEN Ok(v1)
    ELSE LET v == call2("tensor_new", TypeOf(v1), <<>>)
         IN IF Fail(v) THEN v ELSE R([v.v EXCEPT !.tab = <<v1>>], v.e)

\* d1, or 1 beyond the axes of the tensor
Dim(v, i) == IF i > Len(v.dims) THEN 1 ELSE v.dims[i]

\* the axes of two tensors agree on axis i
AxisSame(v1, v2, i) == Dim(v1, i) = Dim(v2, i)
\* the axes of two tensors agree on axis i, or one of them has extent 1
AxisFits(v1, v2, i) == Dim(v1, i) = Dim(v2, i) \/ Dim(v2, i) = 1 \/ Dim(v1, i) = 1
\* the extent of the result on axis i
AxisDim(v1, v2, i) ==
    IF Dim(v1, i) = Dim(v2, i) \/ Dim(v2, i) = 1 THEN Dim(v1, i) ELSE Dim(v2, i)

RECURSIVE matrix_mul_sum(_, _, _, _, _, _, _, _)
\* the innermost loop of matrix_mul: sum + t1[o1 + l] * t2[o2 + n * l] for the
\* l from l0 below k (offsets counted from 0)
matrix_mul_sum(t1, t2, k, n, o1, o2, l0, sum) ==
    IF l0 >= k \/ Stop(sum.v) THEN sum
    ELSE matrix_mul_sum(t1, t2, k, n, o1, o2, l0 + 1,
            After(sum.e, Bind(cval_mul(t1[o1 + l0 + 1], t2[o2 + n * l0 + 1]),
                              LAMBDA x : cval_add(sum.v, x))))

\* matrix multiplication with implicit broadcast
matrix_mul(v1, v2) ==
    LET t == call3("get_op2_type", v1.elem, v2.elem, "ADD") IN
    IF t.v = CRASH THEN R(CRASH, t.e)
    ELSE IF t.v = NoType THEN R(BC_EXCEPTION, t.e)
    ELSE
    LET n_dims == max_int(max_int(Len(v1.dims), Len(v2.dims)), 2)
        dims1 == [i \in 1..n_dims |-> IF i <= 2 THEN Dim(v1, i) ELSE AxisDim(v1, v2, i)]
        dims2 == [i \in 1..n_dims |-> IF i <= 2 THEN Dim(v2, i) ELSE AxisDim(v1, v2, i)]
    IN IF \E i \in 3..n_dims : ~AxisFits(v1, v2, i)
       THEN After(t.e, cval_type_error("incompatible tensor dimensions"))
       ELSE
       LET b1 == call2("tensor_broadcast", v1, dims1)
           b2 == call2("tensor_broadcast", v2, dims2)
           k == dims1[1]
           m == dims1[2]
           n == dims2[1]
           rdims == [i \in 1..n_dims |-> IF i = 1 THEN n ELSE IF i = 2 THEN m ELSE dims1[i]]
       IN IF b1 = CRASH \/ b2 = CRASH THEN R(CRASH, t.e)
          ELSE IF k # dims2[2]
          THEN After(t.e, cval_type_error(
                "incompatible tensor dimensions for matrix multiplication"))
          ELSE After(t.e,
              call2("tensor_fill", call2("tensor_new", t.v, rdims),
                 [c \in 1..tensor_size(rdims) |->
                    LET j == (c - 1) % n
                        i == ((c - 1) \div n) % m
                        i1 == (c - 1) \div (n * m)
                    IN matrix_mul_sum(b1.tab, b2.tab, k, n, k * (i + m * i1),
                                      j + n * k * i1, 0, Ok(cint_from_int(0)))]))

tensor_op2(v1, v2, op) ==
    LET r1 == call1("to_tensor", v1) IN
    IF Fail(r1) THEN r1 ELSE
    LET r2 == call1("to_tensor", v2) IN
    IF Fail(r2) THEN After(r1.e, r2) ELSE
    LET e == Then(r1.e, r2.e) IN
    IF op = "MUL" THEN After(e, call2("matrix_mul", r1.v, r2.v)) ELSE
    LET t == call3("get_op2_type", r1.v.elem, r2.v.elem, op) IN
    IF t.v = CRASH THEN R(CRASH, Then(e, t.e))
    ELSE IF t.v = NoType THEN R(BC_EXCEPTION, Then(e, t.e))
    ELSE
    LET n_dims == max_int(Len(r1.v.dims), Len(r2.v.dims))
        dims == [i \in 1..n_dims |-> AxisDim(r1.v, r2.v, i)]
        b1 == call2("tensor_broadcast", r1.v, dims)
        b2 == call2("tensor_broadcast", r2.v, dims)
    IN IF \E i \in 1..n_dims : ~AxisFits(r1.v, r2.v, i)
       THEN After(Then(e, t.e), cval_type_error("incompatible tensor dimensions"))
       ELSE IF b1 = CRASH \/ b2 = CRASH THEN R(CRASH, Then(e, t.e))
       ELSE After(Then(e, t.e),
              call2("tensor_fill", call2("tensor_new", t.v, dims),
                 [i \in 1..tensor_size(dims) |-> call3("cval_op2", b1.tab[i], b2.tab[i], op)]))

\* the conversion of the cells of a tensor; the references it releases are
\* accounted for where tensors live in the heap
tensor_convert(v1, elem_type) ==
    call2("tensor_fill", call2("tensor_new", elem_type, v1.dims),
                [i \in DOMAIN v1.tab |-> call2("cval_convert", v1.tab[i], elem_type)])

(***************************************************************************)
(* Generic dispatch.                                                       *)
(***************************************************************************)
cval_convert(v1, t1) ==
    IF Bad(v1) THEN Ok(Die(v1))
    ELSE IF t1 = NoType \/ t1 = CRASH THEN Ok(CRASH)
    ELSE IF same_type(TypeOf(v1), t1) THEN Ok(v1)
    ELSE CASE t1.tag = "Int" -> call1("to_cint", v1)
           [] t1.tag = "Frac" -> call1("to_cfrac", v1)
           [] t1.tag = "Float" -> bin_in_dec(call2("to_float1", v1, TRUE))
           [] t1.tag = "Dec" -> call2("to_dec1", v1, TRUE)
           [] t1.tag = "Complex" ->
                LET c == call1("to_complex", v1)
                IN IF Stop(c.v) THEN c
                   ELSE IF cval_is_error(c.v)
                        THEN After(c.e, cval_type_error("cannot convert type"))
                   ELSE After(c.e, call3("complex_new2", c.v.re, c.v.im, t1.elem))
           [] t1.tag = "Tensor" ->
                IF v1.tag # "Tensor" THEN cval_type_error("cannot convert type")
                ELSE call2("tensor_convert", v1, t1.elem)
           [] t1.tag = "Poly" ->
                LET p == call1("to_poly", v1)
                IN IF Stop(p.v) THEN p
                   ELSE IF cval_is_error(p.v)
                        THEN After(p.e, cval_type_error("cannot convert type"))
                   ELSE After(p.e, call2("poly_convert", p.v, t1.elem))
           [] t1.tag = "RFrac" -> Ok(UNMODELLED)
           [] t1.tag = "Ser" ->
                IF v1.tag # "Ser" THEN cval_type_error("cannot convert type")
                ELSE call2("ser_convert", v1, t1.elem)
           [] OTHER -> cval_type_error("cannot convert type")

cval_op2(v1, v2, op) ==
    IF Bad(v1) \/ Bad(v2) THEN Ok(Die2(v1, v2))
    ELSE
    LET max_type == ctype_str[max_int(cval_type(v1), cval_type(v2))]
    IN CASE max_type \in {"Int", "Bool"} ->
              IF op = "DIV" THEN call3("cdec_op2", v1, v2, op) ELSE call3("cint_op2", v1, v2, op)
         [] max_type = "Frac" -> call3("cfrac_op2", v1, v2, op)
         [] max_type = "Dec" -> call3("cdec_op2", v1, v2, op)
         [] max_type = "Float" -> call3("cfloat_op2", v1, v2, op)
         [] max_type = "Complex" -> call3("complex_op2", v1, v2, op)
         [] max_type = "Tensor" -> call3("tensor_op2", v1, v2, op)
         [] max_type = "Poly" -> call3("poly_op2", v1, v2, op)
         [] max_type = "RFrac" -> Ok(UNMODELLED)
         [] max_type = "Ser" -> call3("ser_op2", v1, v2, op)
         [] v1.tag = "String" /\ v2.tag = "String" /\ op = "ADD" -> cstring_concat(v1, v2)
         [] OTHER -> cval_type_error("incompatible types")

cval_op1(v1, op) ==
    IF Bad(v1) THEN Ok(Die(v1))
    ELSE IF op \in {"SQRT", "EXP", "LOG", "SIN", "COS", "TAN"}
            /\ cval_type(v1) < TagNum("Dec")
         THEN Bind(to_dec(v1), LAMBDA d : IF cval_is_error(d) THEN Ok(d)
                                          ELSE call2("cdec_op1", d, op))
    ELSE CASE v1.tag = "Int" -> call2("cint_op1", v1, op)
           [] v1.tag = "Frac" -> call2("cfrac_op1", v1, op)
           [] v1.tag = "Dec" -> call2("cdec_op1", v1, op)
           [] v1.tag = "Float" -> call2("cfloat_op1", v1, op)
           [] v1.tag = "Complex" -> call2("complex_op1", v1, op)
           [] v1.tag = "Poly" -> call2("poly_op1", v1, op)
           [] v1.tag = "RFrac" -> Ok(UNMODELLED)
           [] v1.tag = "Ser" -> call2("ser_op1", v1, op)
           [] v1.tag = "Tensor" -> call2("tensor_op1", v1, op)
           [] OTHER -> cval_type_error("unsupported type")

\* the type of the inverse of a value of type t1
get_inverse2_type(t1, is_frac) ==
    IF t1 = NoType \/ t1 = CRASH THEN CRASH
    ELSE IF t1.tag = "Int"
         THEN IF is_frac THEN def_type("Frac") ELSE def_type("Dec")
    ELSE IF t1.tag \in {"Complex", "Ser"} /\ t1.elem.tag = "Int"
         THEN ctype_new(t1.tag, IF is_frac THEN def_type("Frac") ELSE def_type("Dec"))
    ELSE t1

get_inverse_type(t1) == get_inverse2_type(t1, FALSE)

\* EP(row, col, stride), counted from 1 in a sequence of cells
EP(row, col, stride) == row * stride + col + 1

\* the extent of a square matrix as an Int, -1 if v1 is not one
matrix_check_square(v1) ==
    IF Bad(v1) THEN Ok(Die(v1))
    ELSE IF v1.tag # "Tensor" \/ Len(v1.dims) # 2 \/ v1.dims[1] # v1.dims[2]
         THEN R(cint_from_int(-1), cval_type_error("square matrix expected").e)
    ELSE Ok(cint_from_int(v1.dims[1]))

matrix_idn1(n, elem_type) ==
    LET r == call2("tensor_new", elem_type, <<n, n>>)
        one == call2("cval_convert", cint_from_int(1), elem_type)
    IN IF Stop(r.v) THEN r
       ELSE IF cval_is_error(r.v) THEN R(CRASH, r.e)
       ELSE IF Stop(one.v) THEN After(r.e, one)
       ELSE R([r.v EXCEPT !.tab = [c \in DOMAIN r.v.tab |->
                                     IF (c - 1) \div n = (c - 1) % n THEN one.v ELSE @[c]]],
              Then(r.e, one.e))

RECURSIVE matrix_pivot(_, _, _, _)
\* the search of the pivot of step i: the first j from j0 on with
\* src[EP(i, j, n)] not zero, n when there is none
matrix_pivot(src, n, i, j0) ==
    IF j0 >= n THEN Ok(cint_from_int(n))
    ELSE LET z == call2("cval_cmp_eq_int", src[EP(i, j0, n)], 0)
         IN IF Stop(z.v) THEN z
            ELSE IF z.v.num # 1 THEN R(cint_from_int(j0), z.e)
            ELSE After(z.e, matrix_pivot(src, n, i, j0 + 1))

\* no cells computed yet
NoCells == [tag |-> "Cells", tab |-> <<>>]

RECURSIVE seq_results(_, _, _)
\* the values of the results rs computed in order from position c on, with
\* the slot writes they leave; the end of the computation if one was reached
seq_results(rs, c, acc) ==
    IF c > Len(rs) \/ Stop(acc.v) THEN acc
    ELSE IF Stop(rs[c].v) THEN After(acc.e, rs[c])
    ELSE seq_results(rs, c + 1,
            R([acc.v EXCEPT !.tab = Append(@, rs[c].v)], Then(acc.e, rs[c].e)))

\* lines i and j of the n x n cells m exchanged
matrix_swap(m, n, i, j) ==
    [c \in DOMAIN m |->
        LET row == (c - 1) \div n
            col == (c - 1) % n
        IN IF row = i THEN m[EP(j, col, n)]
           ELSE IF row = j THEN m[EP(i, col, n)]
           ELSE m[c]]

\* line i of m multiplied by c
matrix_scale(m, n, i, c) ==
    seq_results([x \in DOMAIN m |->
                    IF (x - 1) \div n = i THEN cval_mul(m[x], c) ELSE Ok(m[x])],
                1, Ok(NoCells))

\* line i of m times src[EP(j, i, n)] subtracted from every other line j,
\* from column k0 on
matrix_reduce(m, src, n, i, k0) ==
    seq_results([x \in DOMAIN m |->
                    LET row == (x - 1) \div n
                        col == (x - 1) % n
                    IN IF row # i /\ col >= k0
                       THEN Bind(cval_mul(m[EP(i, col, n)], src[EP(row, i, n)]),
                                 LAMBDA y : cval_sub(m[x], y))
                       ELSE Ok(m[x])],
                1, Ok(NoCells))

RECURSIVE matrix_inverse_loop(_, _, _, _, _)
\* the steps i, i + 1, ... of the elimination; r is the result tensor, whose
\* cells are dst
matrix_inverse_loop(r, n, i, src, dst) ==
    IF i >= n THEN Ok([r EXCEPT !.tab = dst])
    ELSE
    LET j == matrix_pivot(src, n, i, i) IN
    IF Stop(j.v) THEN j
    ELSE IF j.v.num = n
         THEN After(j.e, cval_range_error("matrix is not invertible"))
    ELSE
    LET src1 == IF j.v.num # i THEN matrix_swap(src, n, i, j.v.num) ELSE src
        dst1 == IF j.v.num # i THEN matrix_swap(dst, n, i, j.v.num) ELSE dst
        c == call1("cval_inverse", src1[EP(i, i, n)])
    IN IF Stop(c.v) THEN After(j.e, c)
       ELSE
       LET src2 == matrix_scale(src1, n, i, c.v)
           dst2 == matrix_scale(dst1, n, i, c.v)
       IN IF Stop(src2.v) THEN src2
          ELSE IF Stop(dst2.v) THEN dst2
          ELSE
          LET src3 == matrix_reduce(src2.v.tab, src2.v.tab, n, i, i)
              dst3 == matrix_reduce(dst2.v.tab, src2.v.tab, n, i, 0)
          IN IF Stop(src3.v) THEN src3
             ELSE IF Stop(dst3.v) THEN dst3
             ELSE After(Then(Then(j.e, c.e), Then(Then(src2.e, dst2.e), Then(src3.e, dst3.e))),
                        matrix_inverse_loop(r, n, i + 1, src3.v.tab, dst3.v.tab))

\* the inverse of a square matrix by elimination on the lines of the matrix
\* and of the identity
matrix_inverse(v1) ==
    LET n == matrix_check_square(v1) IN
    IF Stop(n.v) THEN n
    ELSE IF n.v.num < 0 THEN R(BC_EXCEPTION, n.e)
    ELSE LET r == matrix_idn1(n.v.num, get_inverse_type(v1.elem))
         IN IF Stop(r.v) THEN r
            ELSE After(r.e, matrix_inverse_loop(r.v, n.v.num, 0, v1.tab, r.v.tab))

cval_inverse(v1) ==
    IF Bad(v1) THEN Ok(Die(v1))
    ELSE IF cval_type(v1) <= TagNum("Float") \/ v1.tag \in {"Poly", "RFrac"}
         THEN cval_div(cint_from_int(1), v1)
    ELSE IF v1.tag = "Complex" THEN call1("complex_inverse", v1)
    ELSE IF v1.tag = "Tensor" THEN call1("matrix_inverse", v1)
    ELSE IF v1.tag = "Ser" THEN Ok(UNMODELLED)
    ELSE cval_type_error("incompatible type")

RECURSIVE generic_pow_loop(_, _, _)
\* the for(;;) loop of generic_pow: r and a are values or NULL, b > 0
generic_pow_loop(r, a, b) ==
    LET r1 == IF b % 2 = 1 THEN cval_mul(r, a) ELSE Ok(r)
        b1 == b \div 2
    IN IF Stop(r1.v) \/ b1 = 0 THEN r1
       ELSE LET a1 == cval_mul(a, a)
            IN IF Stop(a1.v) THEN After(r1.e, a1)
               ELSE After(Then(r1.e, a1.e), generic_pow_loop(r1.v, a1.v, b1))

\* a ^ b for an Int b, by repeated multiplication
generic_pow(a, b) ==
    IF Bad(a) \/ Bad(b) THEN Ok(Die2(a, b))
    ELSE IF a.tag \in {"Tensor", "Ser"} THEN Ok(UNMODELLED)
    ELSE
    LET r == call2("cval_convert", cint_from_int(1), TypeOf(a)) IN
    IF Stop(r.v) THEN r
    ELSE IF b.num = 0 THEN r
    ELSE IF b.num < 0
         THEN LET a1 == call1("cval_inverse", a)
              IN IF Stop(a1.v) THEN After(r.e, a1)
                 ELSE IF cval_is_error(a1.v) THEN R(BC_EXCEPTION, Then(r.e, a1.e))
                 ELSE After(Then(r.e, a1.e), generic_pow_loop(r.v, a1.v, -b.num))
    ELSE After(r.e, generic_pow_loop(r.v, a, b.num))

cval_pow(v1, v2) ==
    IF Bad(v1) \/ Bad(v2) THEN Ok(Die2(v1, v2))
    ELSE
    LET max_type == ctype_str[max_int(cval_type(v1), cval_type(v2))]
    IN IF max_type = "Int"
       THEN IF call2("cval_cmp_lt_int", v2, 0).v.num = 1
            THEN call3("cdec_op2", v1, v2, "POW")
            ELSE call3("cint_op2", v1, v2, "POW")
       ELSE IF max_type = "Dec" THEN call3("cdec_op2", v1, v2, "POW")
       ELSE IF max_type = "Float" THEN call3("cfloat_op2", v1, v2, "POW")
       ELSE IF v1.tag = "Tensor" /\ v2.tag = "Tensor" THEN call3("tensor_op2", v1, v2, "POW")
       ELSE IF v2.tag = "Int" THEN call2("generic_pow", v1, v2)
       ELSE IF max_type = "Complex" THEN call3("complex_op2", v1, v2, "POW")
       ELSE IF v1.tag = "Ser" THEN Ok(UNMODELLED)
       ELSE cval_type_error("incompatible types")

RECURSIVE bestappr_loop(_, _, _, _, _, _, _)
\* the for(;;) loop of cval_bestappr; u is a Decimal or Float, the others Int
bestappr_loop(u, b, num1, num0, den1, den0, fuel) ==
    IF fuel = 0 THEN Ok(UNMODELLED)
    ELSE IF ~IsFinite(QOf(u))
         \* n, num and den are infinite: b < den holds when den1 > 0
         THEN IF u.num = 1 /\ den1.num > 0
              THEN call2("cfrac_new", num1, den1)
              ELSE Ok(UNMODELLED)
    ELSE
    LET n == Bind(cval_floor(u), to_cint)
        num == Bind(Bind(n, LAMBDA x : cval_mul(x, num1)), LAMBDA x : cval_add(x, num0))
        den == Bind(Bind(n, LAMBDA x : cval_mul(x, den1)), LAMBDA x : cval_add(x, den0))
        lt == Bind(den, LAMBDA x : cval_cmp_lt(b, x))
    IN IF Stop(lt.v) THEN lt
       ELSE IF cval_is_error(lt.v) THEN R(CRASH, lt.e)
       ELSE IF lt.v.num = 1 THEN After(lt.e, call2("cfrac_new", num1, den1))
       ELSE LET u1 == Bind(cval_sub(u, n.v), cval_inverse)
            IN IF Fail(u1) THEN R(Die(u1.v), Then(lt.e, u1.e))
               ELSE After(Then(lt.e, u1.e),
                          bestappr_loop(u1.v, b, num.v, num1, den.v, den1, fuel - 1))

cval_bestappr(u, b) ==
    IF Bad(u) THEN Ok(Die(u))
    ELSE
    LET u1 == IF u.tag \notin {"Dec", "Float"} THEN to_dec(u) ELSE Ok(u) IN
    IF Stop(u1.v) THEN u1
    ELSE IF cval_is_error(u1.v) THEN R(BC_EXCEPTION, u1.e)
    ELSE IF Bad(b) THEN R(Die(b), u1.e)
    ELSE IF b.tag # "Int" THEN R(BC_EXCEPTION, u1.e)
    ELSE After(u1.e, bestappr_loop(u1.v, b, cint_from_int(1), cint_from_int(0),
                                   cint_from_int(0), cint_from_int(1), MaxIter))

cval_cmp_neq(v1, v2) ==
    LET r == call3("cval_op2", v1, v2, "CMP_EQ")
    IN IF Fail(r) THEN r
       ELSE IF r.v.tag # "Bool" THEN R(CRASH, r.e)
       ELSE R(cbool_new(r.v.num = 0), r.e)

(***************************************************************************)
(* Polynomial, as a value: element type and coefficients (tab[1] is the    *)
(* source's tab[0], the constant term).  An Array that is the argument of  *)
(* a call is a value too: its cells.                                       *)
(***************************************************************************)
is_poly_elem_type(tag) == tag \in {"Int", "Frac", "Dec", "Float", "Complex"}

Poly(elem_type, tab) == [tag |-> "Poly", elem |-> elem_type, tab |-> tab]

\* carray_ctor: the array of the arguments of Array(...)
carray_ctor(cells) == [tag |-> "Array", tab |-> cells]

\* assert(len >= 1); the coefficients start as 0 of the element type
poly_new(elem_type, len) ==
    IF len < 1 \/ elem_type = NoType \/ elem_type = CRASH THEN Ok(CRASH)
    ELSE IF ~is_poly_elem_type(elem_type.tag)
         THEN cval_type_error("only numeric types are allowed in polynomials")
    ELSE LET z == call2("cval_convert", cint_from_int(0), elem_type)
         IN IF Stop(z.v) THEN z
            ELSE R(Poly(elem_type, [i \in 1..len |-> z.v]), z.e)

\* the loops that store computed coefficients in the new polynomial v, from
\* position at on; a coefficient that is the sentinel is stored as NULL
poly_fill(v, at, cells) ==
    IF cval_is_error(v.v) THEN R(CRASH, v.e)
    ELSE IF Stop(v.v) THEN v
    ELSE IF \E i \in DOMAIN cells : Stop(cells[i].v)
         THEN After(v.e, cells[CHOOSE i \in DOMAIN cells :
                            /\ Stop(cells[i].v)
                            /\ \A j \in DOMAIN cells : Stop(cells[j].v) => i <= j])
    ELSE R([v.v EXCEPT !.tab = [i \in DOMAIN v.v.tab |->
                IF i >= at /\ i - at + 1 \in DOMAIN cells
                THEN cells[i - at + 1].v ELSE v.v.tab[i]]], v.e)

RECURSIVE poly_trim_loop(_, _)
\* the while loop of poly_trim: the new length, as an Int
poly_trim_loop(tab, i) ==
    IF i <= 1 THEN Ok(cint_from_int(i))
    ELSE LET r == call2("cval_cmp_eq_int", tab[i], 0)
         IN IF Stop(r.v) THEN r
            ELSE IF r.v.num = 1 THEN After(r.e, poly_trim_loop(tab, i - 1))
            ELSE R(cint_from_int(i), r.e)

\* poly_trim on the result r of a loop that filled a polynomial
poly_trim(r) ==
    IF Bad(r.v) THEN r
    ELSE LET n == poly_trim_loop(r.v.tab, Len(r.v.tab))
         IN IF Stop(n.v) THEN After(r.e, n)
            ELSE R([r.v EXCEPT !.tab = SubSeq(r.v.tab, 1, n.v.num)], Then(r.e, n.e))

\* Polynomial(v1): v1 is an Array, a Tensor or a constant
poly_ctor(v1) ==
    IF Bad(v1) THEN Ok(Die(v1))
    ELSE IF v1.tag = "Array"
    THEN IF Len(v1.tab) = 0 THEN cval_type_error("at least one element expected")
         ELSE IF \E i \in DOMAIN v1.tab : Bad(v1.tab[i]) THEN Ok(CRASH)
         ELSE
         LET types == [i \in DOMAIN v1.tab |-> TypeOf(v1.tab[i])]
             f == call4("op2_type_fold", types, 2, types[1], NoErr)
         IN IF f.t = CRASH THEN R(CRASH, f.e)
            ELSE IF f.t = NoType THEN R(BC_EXCEPTION, f.e)
            ELSE
            LET v == call2("poly_new", f.t, Len(v1.tab))
                cells == [i \in DOMAIN v1.tab |-> call2("cval_convert", v1.tab[i], f.t)]
            IN IF Fail(v) THEN After(f.e, v)
               \* the polynomial is freed and then returned
               ELSE IF \E i \in DOMAIN cells : cval_is_error(cells[i].v)
                    THEN R(UNMODELLED, f.e)
               ELSE After(f.e, call3("poly_fill", v, 1, cells))
    ELSE IF v1.tag = "Tensor"
    THEN IF Len(v1.dims) # 1 THEN cval_type_error("tensor of dimension 1 expected")
         ELSE LET v == call2("poly_new", v1.elem, v1.dims[1])
              IN IF Fail(v) THEN v
                 ELSE call3("poly_fill", v, 1, [i \in DOMAIN v1.tab |-> Ok(v1.tab[i])])
    ELSE LET v == call2("poly_new", TypeOf(v1), 1)
         IN IF Fail(v) THEN v ELSE call3("poly_fill", v, 1, <<Ok(v1)>>)

to_poly(v1) ==
    IF Bad(v1) THEN Ok(Die(v1))
    ELSE IF v1.tag = "Poly" THEN Ok(v1)
    ELSE IF ~is_poly_elem_type(v1.tag) THEN cval_type_error("cannot convert to polynomial")
    ELSE LET v == call2("poly_new", TypeOf(v1), 1)
         IN IF Fail(v) THEN v ELSE call3("poly_fill", v, 1, <<Ok(v1)>>)

poly_convert(v1, elem_type) ==
    LET v == call2("poly_new", elem_type, Len(v1.tab))
        cells == [i \in DOMAIN v1.tab |-> call2("cval_convert", v1.tab[i], elem_type)]
    IN IF Fail(v) THEN v
       ELSE IF \E i \in DOMAIN cells : cval_is_error(cells[i].v)
            THEN R(BC_EXCEPTION,
                   cells[CHOOSE i \in DOMAIN cells : cval_is_error(cells[i].v)].e)
       ELSE poly_trim(call3("poly_fill", v, 1, cells))

\* poly_new2: a polynomial over the type of the sum of the element types
poly_new2(t1, t2, len) ==
    LET t == call3("get_op2_type", t1, t2, "ADD")
    IN IF t.v = CRASH THEN t
       ELSE IF t.v = NoType THEN R(BC_EXCEPTION, t.e)
       ELSE After(t.e, call2("poly_new", t.v, len))

\* v1 + v2, or v1 - v2 when v2_neg
poly_add(v1, v2, v2_neg) ==
    LET n1 == Len(v1.tab)
        n2 == Len(v2.tab)
        n_min == IF n2 > n1 THEN n1 ELSE n2
        n_max == IF n2 > n1 THEN n2 ELSE n1
        v == poly_new2(v1.elem, v2.elem, n_max)
        cell(i) ==
            IF i <= n_min
            THEN IF v2_neg THEN cval_sub(v1.tab[i], v2.tab[i])
                 ELSE cval_add(v1.tab[i], v2.tab[i])
            ELSE IF n2 > n1
                 THEN Bind(IF v2_neg THEN cval_neg(v2.tab[i]) ELSE Ok(v2.tab[i]),
                           LAMBDA x : IF cval_is_error(x) THEN Ok(x)
                                      ELSE call2("cval_convert", x, v.v.elem))
                 ELSE call2("cval_convert", v1.tab[i], v.v.elem)
        cells == [i \in 1..n_max |-> cell(i)]
    IN IF Fail(v) THEN v
       ELSE IF \E i \in DOMAIN cells : cval_is_error(cells[i].v)
            THEN R(BC_EXCEPTION,
                   Then(v.e, cells[CHOOSE i \in DOMAIN cells : cval_is_error(cells[i].v)].e))
       ELSE poly_trim(call3("poly_fill", v, 1, cells))

RECURSIVE poly_cmp_eq_loop(_, _, _)
\* the for loop of poly_cmp_eq over the coefficients from i on
poly_cmp_eq_loop(t1, t2, i) ==
    IF i > Len(t1) THEN Ok(cbool_new(TRUE))
    ELSE LET r == call2("cval_cmp_eq2", t1[i], t2[i])
         IN IF Stop(r.v) THEN r
            ELSE IF r.v.num = 0 THEN R(cbool_new(FALSE), r.e)
            ELSE After(r.e, poly_cmp_eq_loop(t1, t2, i + 1))

poly_cmp_eq(v1, v2) ==
    IF Len(v1.tab) # Len(v2.tab) THEN Ok(cbool_new(FALSE))
    ELSE poly_cmp_eq_loop(v1.tab, v2.tab, 1)

\* the operations followed on polynomials: +, -, * and ==
poly_op2(v1, v2, op) ==
    LET p1 == call1("to_poly", v1) IN
    IF Fail(p1) THEN p1 ELSE
    LET p2 == call1("to_poly", v2) IN
    IF Fail(p2) THEN After(p1.e, p2) ELSE
    After(Then(p1.e, p2.e),
        CASE op = "ADD" -> call3("poly_add", p1.v, p2.v, FALSE)
          [] op = "SUB" -> call3("poly_add", p1.v, p2.v, TRUE)
          [] op = "CMP_EQ" -> call2("poly_cmp_eq", p1.v, p2.v)
          [] op \in {"MUL", "DOT_MUL"} -> call2("poly_mul", p1.v, p2.v)
          [] op \in {"DIV", "MOD", "DIVREM", "FRAC_DIV"} -> Ok(UNMODELLED)
          [] OTHER -> cval_type_error("unsupported operation"))

poly_deriv(v1) ==
    LET n == Len(v1.tab)
        v == call2("poly_new", v1.elem, max_int(n - 1, 1))
    IN poly_trim(call3("poly_fill", v, 1,
            [i \in 1..(n - 1) |-> cval_mul(v1.tab[i + 1], cint_from_int(i))]))

poly_integ(v1) ==
    LET n == Len(v1.tab)
        v == call2("poly_new", get_inverse_type(v1.elem), n + 1)
    IN poly_trim(call3("poly_fill", v, 2,
            [i \in 1..n |-> cval_div(v1.tab[i], cint_from_int(i))]))

cval_deriv(v1) ==
    IF Bad(v1) THEN Ok(Die(v1))
    ELSE IF v1.tag = "Poly" THEN call1("poly_deriv", v1)
    ELSE IF v1.tag \in {"RFrac", "Ser"} THEN Ok(UNMODELLED)
    ELSE cval_type_error("incompatible type")

cval_integ(v1) ==
    IF Bad(v1) THEN Ok(Die(v1))
    ELSE IF v1.tag = "Poly" THEN call1("poly_integ", v1)
    ELSE IF v1.tag = "Ser" THEN Ok(UNMODELLED)
    ELSE cval_type_error("incompatible type")

\* poly_gcd up to the conversion of the operands: the element types are read
\* through v->type->elem_type whatever the operands are; the remainder loop
\* is not followed
poly_gcd(v1, v2) ==
    IF Bad(v1) \/ Bad(v2) THEN Ok(Die2(v1, v2))
    ELSE LET t == call3("get_op2_type", TypeOf(v1).elem, TypeOf(v2).elem, "ADD")
         IN IF t.v = CRASH THEN t
            ELSE IF t.v = NoType THEN R(BC_EXCEPTION, t.e)
            ELSE R(UNMODELLED, t.e)

\* both tests of each branch look at v1
cval_gcd(v1, v2) ==
    IF Bad(v1) \/ Bad(v2) THEN Ok(Die2(v1, v2))
    ELSE IF v1.tag = "Int" THEN call2("cint_gcd", v1, v2)
    ELSE IF v1.tag = "Poly" THEN call2("poly_gcd", v1, v2)
    ELSE cval_type_error("incompatible types")

RECURSIVE conv_cell(_, _, _, _, _, _)
\* the sum that the nested loops of poly_mul and ser_mul leave in cell k
\* (counted from 0): acc + t1[i] * t2[k - i] for i up to hi, in this order
conv_cell(t1, t2, k, i, hi, acc) ==
    IF i > hi \/ Stop(acc.v) THEN acc
    ELSE IF k - i >= Len(t2) THEN conv_cell(t1, t2, k, i + 1, hi, acc)
    ELSE conv_cell(t1, t2, k, i + 1, hi,
            After(acc.e, Bind(cval_mul(t1[i + 1], t2[k - i + 1]),
                              LAMBDA x : cval_add(acc.v, x))))

poly_mul(v1, v2) ==
    LET n == Len(v1.tab) + Len(v2.tab) - 1
        v == poly_new2(v1.elem, v2.elem, n)
    IN IF Fail(v) THEN v
       ELSE poly_trim(call3("poly_fill", v, 1,
                [k \in 1..n |-> conv_cell(v1.tab, v2.tab, k - 1,
                                          max_int(0, k - Len(v2.tab)),
                                          IF k - 1 < Len(v1.tab) THEN k - 1
                                          ELSE Len(v1.tab) - 1,
                                          Ok(v.v.tab[k]))]))

poly_op1(v1, op) ==
    IF op = "NEG" THEN cval_mul(v1, cint_from_int(-1))
    ELSE cval_type_error("unsupported type")

\* the degree of a polynomial as an Int, -1 for the constant 0
poly_deg(v1) ==
    LET n == Len(v1.tab) - 1
        z == call2("cval_cmp_eq_int", v1.tab[1], 0)
    IN IF n # 0 THEN Ok(cint_from_int(n))
       ELSE IF Stop(z.v) THEN z
       ELSE R(cint_from_int(IF z.v.num = 1 THEN -1 ELSE 0), z.e)

\* the value of the polynomial or series func_val at x, by Horner's rule
RECURSIVE poly_apply_loop(_, _, _, _)
poly_apply_loop(tab, x, n, v) ==
    IF n <= 1 \/ Stop(v.v) THEN v
    ELSE poly_apply_loop(tab, x, n - 1,
            After(v.e, Bind(cval_mul(v.v, x), LAMBDA y : cval_add(y, tab[n - 1]))))

poly_apply(func_val, x) ==
    IF Len(func_val.tab) = 0 THEN Ok(CRASH)
    ELSE poly_apply_loop(func_val.tab, x, Len(func_val.tab),
                         Ok(func_val.tab[Len(func_val.tab)]))

(***************************************************************************)
(* Series, as a value: element type, the exponent emin of the first term   *)
(* and the coefficients (tab[1] is the source's tab[0], the term X^emin).  *)
(* The series stands for its terms plus O(X^(emin + len)).                 *)
(***************************************************************************)
Ser(elem_type, emin, tab) ==
    [tag |-> "Ser", elem |-> elem_type, emin |-> emin, tab |-> tab]

\* p->emin: 0 for a polynomial
EminOf(v) == IF v.tag = "Ser" THEN v.emin ELSE 0

\* assert(len >= 0); the coefficients start as 0 of the element type
ser_new(elem_type, len, emin) ==
    IF len < 0 \/ elem_type = NoType \/ elem_type = CRASH THEN Ok(CRASH)
    ELSE IF ~is_poly_elem_type(elem_type.tag)
         THEN cval_type_error("only numeric types are allowed in series")
    ELSE LET z == call2("cval_convert", cint_from_int(0), elem_type)
         IN IF Stop(z.v) THEN z
            ELSE R(Ser(elem_type, emin, [i \in 1..len |-> z.v]), z.e)

ser_new2(t1, t2, len, emin) ==
    LET t == call3("get_op2_type", t1, t2, "ADD")
    IN IF t.v = CRASH THEN t
       ELSE IF t.v = NoType THEN R(BC_EXCEPTION, t.e)
       ELSE After(t.e, call3("ser_new", t.v, len, emin))

RECURSIVE get_emin_loop(_, _)
\* the while loop of get_emin: the number of leading zero coefficients
get_emin_loop(tab, e) ==
    IF e >= Len(tab) THEN Ok(cint_from_int(e))
    ELSE LET r == call2("cval_cmp_eq_int", tab[e + 1], 0)
         IN IF Stop(r.v) THEN r
            ELSE IF r.v.num = 1 THEN After(r.e, get_emin_loop(tab, e + 1))
            ELSE R(cint_from_int(e), r.e)

get_emin(v1) == get_emin_loop(v1.tab, 0)

\* O(v1): the empty series of the degree of the monomial
ser_O(v1) ==
    IF Bad(v1) THEN Ok(Die(v1))
    ELSE IF cval_type(v1) <= TagNum("Poly")
    THEN LET p == call1("to_poly", v1) IN
         IF Stop(p.v) THEN p
         ELSE IF cval_is_error(p.v) THEN R(CRASH, p.e)
         ELSE LET n == poly_deg(p.v)
              IN IF Stop(n.v) THEN After(p.e, n)
                 ELSE IF n.v.num < 0
                      THEN After(Then(p.e, n.e),
                                 cval_range_error("invalid polynomial degree for O()"))
                 ELSE After(Then(p.e, n.e), call3("ser_new", p.v.elem, 0, n.v.num))
    ELSE IF v1.tag = "RFrac" THEN Ok(UNMODELLED)
    ELSE cval_type_error("invalid type for O()")

\* if v1 is not a series, the returned series has n terms
to_ser(v1, n) ==
    IF Bad(v1) THEN Ok(Die(v1))
    ELSE IF v1.tag = "Ser" THEN Ok(v1)
    ELSE IF cval_type(v1) <= TagNum("Poly")
    THEN LET p == call1("to_poly", v1) IN
         IF Stop(p.v) THEN p
         ELSE IF cval_is_error(p.v) THEN R(CRASH, p.e)
         ELSE IF n <= 0 THEN After(p.e, call3("ser_new", p.v.elem, 0, 0))
         ELSE LET e == get_emin(p.v)
              IN IF Stop(e.v) THEN After(p.e, e)
                 ELSE LET m == IF Len(p.v.tab) - e.v.num < n
                               THEN Len(p.v.tab) - e.v.num ELSE n
                      IN After(Then(p.e, e.e),
                            call3("poly_fill", call3("ser_new", p.v.elem, n, e.v.num), 1,
                                  [i \in 1..m |-> Ok(p.v.tab[i + e.v.num])]))
    ELSE IF v1.tag = "RFrac" THEN Ok(UNMODELLED)
    ELSE cval_type_error("cannot convert to a series")

\* a trim that removes the leading zero terms and leaves emin as it was
ser_trim_keep_emin(r) ==
    IF Bad(r.v) THEN r
    ELSE LET i == get_emin(r.v)
         IN IF Stop(i.v) THEN After(r.e, i)
            ELSE IF i.v.num <= 0 THEN R(r.v, Then(r.e, i.e))
            ELSE R([r.v EXCEPT !.tab = SubSeq(r.v.tab, i.v.num + 1, Len(r.v.tab))],
                   Then(r.e, i.e))

\* ser_trim on the result r of a loop that filled a series: the leading
\* zero terms are removed
ser_trim(r) ==
    IF Bad(r.v) THEN r
    ELSE LET i == get_emin(r.v)
         IN IF Stop(i.v) THEN After(r.e, i)
            ELSE IF i.v.num <= 0 THEN R(r.v, Then(r.e, i.e))
            ELSE R([r.v EXCEPT !.tab = SubSeq(r.v.tab, i.v.num + 1, Len(r.v.tab)),
                               !.emin = @ + i.v.num], Then(r.e, i.e))

ser_neg(v1) ==
    call3("poly_fill", call3("ser_new", v1.elem, Len(v1.tab), v1.emin), 1,
          [i \in DOMAIN v1.tab |-> cval_neg(v1.tab[i])])

ser_convert(v1, elem_type) ==
    LET v == call3("ser_new", elem_type, Len(v1.tab), v1.emin)
        cells == [i \in DOMAIN v1.tab |-> call2("cval_convert", v1.tab[i], elem_type)]
    IN IF Fail(v) THEN v
       ELSE IF \E i \in DOMAIN cells : cval_is_error(cells[i].v)
            THEN R(BC_EXCEPTION,
                   cells[CHOOSE i \in DOMAIN cells : cval_is_error(cells[i].v)].e)
       ELSE ser_trim(call3("poly_fill", v, 1, cells))

\* the part of ser_add after d is known: p1 is the series, p2 a series or a
\* polynomial, d the order up to which both are known
ser_add_terms(p1, p2, d) ==
    LET emin == IF p1.emin < EminOf(p2) THEN p1.emin ELSE EminOf(p2)
        n == d - emin
        r == ser_new2(p1.elem, p2.elem, n, emin)
        zero == call2("cval_convert", cint_from_int(0), r.v.elem)
        coef(p, i) ==
            LET j == i + emin - EminOf(p)
            IN IF j >= 0 /\ j < Len(p.tab) THEN Ok(p.tab[j + 1]) ELSE zero
    IN IF Stop(r.v) THEN r
       ELSE IF cval_is_error(r.v) THEN R(CRASH, r.e)
       ELSE ser_trim(call3("poly_fill", r, 1,
                [i \in 1..n |-> Bind2(coef(p1, i - 1), coef(p2, i - 1), cval_add)]))

\* at least one argument is a series
ser_add(v1, v2) ==
    IF Bad(v1) \/ Bad(v2) THEN Ok(Die2(v1, v2))
    ELSE
    LET p1 == IF v1.tag # "Ser" THEN v2 ELSE v1
        q == IF v1.tag # "Ser" THEN v1 ELSE v2
        d == p1.emin + Len(p1.tab)
    IN IF cval_type(q) <= TagNum("Poly")
       THEN LET p2 == call1("to_poly", q)
            IN IF Stop(p2.v) THEN p2
               ELSE IF d <= 0 THEN R(p1, p2.e)
               ELSE IF cval_is_error(p2.v) THEN R(CRASH, p2.e)
               ELSE After(p2.e, call3("ser_add_terms", p1, p2.v, d))
       ELSE IF q.tag = "RFrac" THEN Ok(UNMODELLED)
       ELSE call3("ser_add_terms", p1, q,
                  IF d < q.emin + Len(q.tab) THEN d ELSE q.emin + Len(q.tab))

ser_sub(v1, v2) ==
    LET n == cval_neg(v2)
    IN IF Stop(n.v) THEN n ELSE After(n.e, call2("ser_add", v1, n.v))

\* at least one argument is a series
ser_mul(v1, v2) ==
    IF Bad(v1) \/ Bad(v2) THEN Ok(Die2(v1, v2))
    ELSE
    LET s1 == IF v1.tag # "Ser" THEN call2("to_ser", v1, Len(v2.tab)) ELSE Ok(v1) IN
    IF Stop(s1.v) THEN s1
    ELSE IF cval_is_error(s1.v) THEN R(CRASH, s1.e)
    ELSE
    LET s2 == IF v2.tag # "Ser" THEN call2("to_ser", v2, Len(s1.v.tab)) ELSE Ok(v2) IN
    IF Stop(s2.v) THEN After(s1.e, s2)
    ELSE IF cval_is_error(s2.v) THEN R(CRASH, Then(s1.e, s2.e))
    ELSE
    LET p1 == s1.v
        p2 == s2.v
        n == IF Len(p1.tab) < Len(p2.tab) THEN Len(p1.tab) ELSE Len(p2.tab)
        r == ser_new2(p1.elem, p2.elem, n, p1.emin + p2.emin)
    IN IF Stop(r.v) THEN After(Then(s1.e, s2.e), r)
       ELSE IF cval_is_error(r.v) THEN R(CRASH, Then(Then(s1.e, s2.e), r.e))
       ELSE After(Then(s1.e, s2.e),
              ser_trim(call3("poly_fill", r, 1,
                  [k \in 1..n |-> conv_cell(p1.tab, p2.tab, k - 1, 0, k - 1,
                                            Ok(r.v.tab[k]))])))

\* the operations followed on series: +, - and *
ser_op2(v1, v2, op) ==
    CASE op = "ADD" -> call2("ser_add", v1, v2)
      [] op = "SUB" -> ser_sub(v1, v2)
      [] op \in {"MUL", "DOT_MUL"} -> call2("ser_mul", v1, v2)
      [] op \in {"DIV", "FRAC_DIV"} -> Ok(UNMODELLED)
      [] OTHER -> cval_type_error("unsupported operation")

ser_apply(v1, x) ==
    LET v == call2("poly_apply", v1, x)
    IN IF Fail(v) THEN v
       ELSE IF v1.emin # 0
            THEN After(v.e, Bind(call2("cval_pow", x, cint_from_int(v1.emin)),
                                 LAMBDA y : cval_mul(v.v, y)))
       ELSE v

RECURSIVE cval_fact1(_)
\* n!, as an Int
cval_fact1(n) == IF n <= 1 THEN cint_from_int(1)
                 ELSE cint_from_int(n * cval_fact1(n - 1).num)

is_complex_frac(t) == t.tag = "Frac" \/ (t.tag = "Complex" /\ t.elem.tag = "Frac")

\* exp of a series without constant term, up to MaxExpLen terms; with a
\* constant term, the exponential of the constant is not followed
ser_exp(v1) ==
    IF v1.emin < 0 THEN cval_range_error("negative exponent in exp")
    ELSE IF v1.emin = 0
         THEN IF is_complex_frac(v1.elem)
              THEN cval_range_error("non zero exponent in exp with rational type")
              \* p1->tab[0] is read whatever len is; with len = 0 the
              \* value read is dereferenced and ser0 asserts len - 1 >= 0
              ELSE IF Len(v1.tab) = 0 THEN Ok(CRASH)
              ELSE Ok(UNMODELLED)
    ELSE IF v1.emin + Len(v1.tab) > MaxExpLen THEN Ok(UNMODELLED)
    ELSE
    LET n == v1.emin + Len(v1.tab)
        c == call2("cval_convert", cint_from_int(1), v1.elem)
        r == call3("ser_new", get_inverse_type(v1.elem), n, 0)
        f == call3("poly_fill", r, 1, [i \in 1..n |-> cval_div(c.v, cval_fact1(i - 1))])
    IN IF Stop(c.v) THEN c
       ELSE IF Stop(f.v) THEN After(c.e, f)
       ELSE After(Then(c.e, f.e), call2("ser_apply", f.v, v1))

\* log of a series: the quotient of the derivative is not followed;
\* v1->u.poly.tab[0] is read and dereferenced whatever len is
ser_log(v1) ==
    IF v1.emin # 0
    THEN cval_range_error("log argument must have a non zero constant term")
    ELSE IF Len(v1.tab) = 0 THEN Ok(CRASH)
    ELSE Ok(UNMODELLED)

\* the real or imaginary parts of the coefficients
ser_re_im(v1, is_im) ==
    \* a value that is not a series has no u.poly and its element type has
    \* no element type: ser_new dereferences NULL
    IF v1.tag # "Ser" THEN Ok(CRASH)
    ELSE IF \E i \in DOMAIN v1.tab : v1.tab[i].tag # "Complex" THEN Ok(CRASH)
    ELSE call3("poly_fill", call3("ser_new", v1.elem.elem, Len(v1.tab), v1.emin), 1,
               [i \in DOMAIN v1.tab |-> Ok(IF is_im THEN v1.tab[i].im ELSE v1.tab[i].re)])

\* the operations followed on series: -, exp, and sin and cos of a series
\* with real coefficients
ser_op1(v1, op) ==
    CASE op = "NEG" -> call1("ser_neg", v1)
      [] op = "EXP" -> call1("ser_exp", v1)
      [] op \in {"SIN", "COS"} ->
           LET t == Bind(Bind(call2("complex_new", cint_from_int(0), cint_from_int(1)),
                              LAMBDA i : cval_mul(v1, i)),
                         LAMBDA x : call2("cval_op1", x, "EXP"))
           IN IF Stop(t.v) \/ cval_is_error(t.v) THEN t
              ELSE IF is_real_number(v1.elem)
                   THEN After(t.e, call2("ser_re_im", t.v, op = "SIN"))
              ELSE R(UNMODELLED, t.e)
      [] op = "LOG" -> call1("ser_log", v1)
      [] op = "TAN" -> Ok(UNMODELLED)
      [] OTHER -> cval_type_error("unsupported type")

(***************************************************************************)
(* Reference counting.  A Tensor or Array that a name is bound to is an    *)
(* object of the heap, and the value is a reference to it.  An evaluation  *)
(* threads a record [objs, uaf, fault]: the objects, whether freed memory  *)
(* was touched, and whether the assertion of cval_free failed.  A freed    *)
(* object keeps its last contents.                                         *)
(***************************************************************************)
Ref(id) == [tag |-> "Ref", id |-> id]
IsRef(v) == v.tag = "Ref"

\* cval_new1: ref_count = 1
cval_new1(kind, elem, dims, tab) ==
    [kind |-> kind, rc |-> 1, live |-> TRUE, elem |-> elem, dims |-> dims, tab |-> tab]

Hp(objs) == [objs |-> objs, uaf |-> FALSE, fault |-> FALSE]

\* the heap after one more object, and the reference to it
alloc(H, o) == [H EXCEPT !.objs = Append(@, o)]
newref(H) == Ref(Len(H.objs) + 1)

cval_dup(H, v) ==
    IF ~IsRef(v) THEN H
    ELSE [H EXCEPT !.objs[v.id].rc = @ + 1, !.uaf = @ \/ ~H.objs[v.id].live]

RECURSIVE cval_free(_, _), free_cells(_, _, _)
\* assert(ref_count >= 1); at zero __cval_free releases the cells, then the object
cval_free(H, v) ==
    IF ~IsRef(v) THEN H
    ELSE LET o == H.objs[v.id]
             H1 == [H EXCEPT !.uaf = @ \/ ~o.live]
         IN IF o.rc < 1 THEN [H1 EXCEPT !.fault = TRUE]
            ELSE IF o.rc > 1 THEN [H1 EXCEPT !.objs[v.id].rc = @ - 1]
            ELSE LET H2 == free_cells([H1 EXCEPT !.objs[v.id].rc = 0], o.tab, 1)
                 IN [H2 EXCEPT !.objs[v.id].live = FALSE]

free_cells(H, tab, i) ==
    IF i > Len(tab) THEN H ELSE free_cells(cval_free(H, tab[i]), tab, i + 1)

\* set_value: store v in the cell, then release what the cell held
set_value(H, id, pos, v) ==
    cval_free([H EXCEPT !.objs[id].tab[pos] = v], H.objs[id].tab[pos])

\* v->type of a value or of the object a reference points to
TypeOfH(H, v) ==
    IF ~IsRef(v) THEN TypeOf(v)
    ELSE IF H.objs[v.id].kind = "Array" THEN def_type("Array")
    ELSE ctype_new("Tensor", H.objs[v.id].elem)

\* the result of a step of an evaluation: heap, value, slot write
X(H, v, e) == [h |-> H, v |-> v, e |-> e]

\* tensor_convert of a heap tensor whose cells are scalars; v1 is released
tensor_convert_h(H, v1, elem_type) ==
    LET o1 == H.objs[v1.id]
        v == call2("tensor_new", elem_type, o1.dims)
        cells == [i \in 1..Len(o1.tab) |-> call2("cval_convert", o1.tab[i], elem_type)]
        k == FirstFail(cells)
        Ht == [H EXCEPT !.uaf = @ \/ ~o1.live]
    IN IF \E i \in 1..Len(o1.tab) : IsRef(o1.tab[i]) THEN X(H, UNMODELLED, NoErr)
       ELSE IF Bad(v.v) THEN X(Ht, Die(v.v), v.e)
       ELSE IF k # 0
            THEN IF Stop(cells[k].v) THEN X(Ht, cells[k].v, Then(v.e, cells[k].e))
                 ELSE X(cval_free(Ht, v1), BC_EXCEPTION, Then(v.e, cells[k].e))
       ELSE LET o == cval_new1("Tensor", elem_type, o1.dims,
                               [i \in 1..Len(o1.tab) |-> cells[i].v])
            IN X(cval_free(alloc(Ht, o), v1), newref(Ht), v.e)

\* cval_convert of a value that may be a reference; v1 is consumed
cval_convert_h(H, v1, t1) ==
    IF ~IsRef(v1) THEN LET r == call2("cval_convert", v1, t1) IN X(H, r.v, r.e)
    ELSE IF same_type(TypeOfH(H, v1), t1) THEN X(H, v1, NoErr)
    ELSE IF t1.tag = "Tensor"
         THEN IF H.objs[v1.id].kind # "Tensor"
              THEN X(cval_free(H, v1), BC_EXCEPTION, cval_type_error("cannot convert type").e)
              ELSE LET r == call3("tensor_convert_h", H, v1, t1.elem)
                   \* cval_free(ctx, v1) again, after tensor_convert released it
                   IN IF Stop(r.v) THEN r ELSE X(cval_free(r.h, v1), r.v, r.e)
    ELSE X(H, UNMODELLED, NoErr)

\* the target_type loop of tensor_from_array over the leaf types from k on:
\* the type, the slot write, and the leaf at which get_op2_type gave NULL (or 0)
op2_type_fold(types, k, t, e) ==
    IF k > Len(types) THEN [t |-> t, e |-> e, k |-> 0]
    ELSE LET r == call3("get_op2_type", t, types[k], "ADD")
         IN IF r.v = NoType \/ r.v = CRASH THEN [t |-> r.v, e |-> Then(e, r.e), k |-> k]
            ELSE call4("op2_type_fold", types, k + 1, r.v, Then(e, r.e))

\* tensor_from_array on the one-axis array that holds cells; the array is released
tensor_from_array(H, cells) ==
    IF Len(cells) < 1
    THEN X(H, BC_EXCEPTION, cval_type_error("unexpected empty array").e)
    ELSE IF \E i \in 1..Len(cells) :
                \/ IsRef(cells[i]) /\ H.objs[cells[i].id].kind = "Array"
                \/ ~IsRef(cells[i]) /\ cells[i].tag = "Tensor"
         THEN X(H, UNMODELLED, NoErr)
    ELSE
    LET n == Len(cells)
        types == [i \in 1..n |-> TypeOfH(H, cells[i])]
        f == call4("op2_type_fold", types, 2, types[1], NoErr)
        conv == [i \in 1..n |-> IF IsRef(cells[i]) THEN Ok(cells[i])
                                ELSE call2("cval_convert", cells[i], f.t)]
        k == FirstFail(conv)
    IN IF f.t = CRASH THEN X(H, CRASH, f.e)
       ELSE IF f.k # 0 THEN X(free_cells(H, cells, 1), BC_EXCEPTION, f.e)
       ELSE IF k # 0
            THEN IF Stop(conv[k].v) THEN X(H, conv[k].v, Then(f.e, conv[k].e))
                 ELSE X(free_cells(H, cells, 1), BC_EXCEPTION, Then(f.e, conv[k].e))
       ELSE X(alloc(H, cval_new1("Tensor", f.t, <<n>>, [i \in 1..n |-> conv[i].v])),
              newref(H), f.e)

\* cint_to_int on a subscript
cint_to_int(i) ==
    IF i.tag # "Int" THEN cval_type_error("integer expected") ELSE Ok(i)

RECURSIVE tensor_offsets(_, _, _, _, _)
\* the loop of tensor_getsetitem on the indexed axes, from axis a (counted
\* from 1) up: offsets[], or the sentinel.  A negative index is moved by
\* dims[i], a local that is not written before this read: junk[a] stands for
\* what the stack holds there
tensor_offsets(v1, idxs, junk, a, offs) ==
    IF a > Len(v1.dims) THEN Ok([tag |-> "Offsets", tab |-> offs])
    ELSE LET el == idxs[Len(v1.dims) - a + 1]
             i == cint_to_int(el)
             idx == IF el.num < 0 THEN el.num + junk[a] ELSE el.num
         IN IF cval_is_error(i.v) THEN i
            ELSE IF idx < 0 \/ idx >= v1.dims[a]
                 THEN cval_range_error("tensor index out of bounds")
            ELSE tensor_offsets(v1, idxs, junk, a + 1, offs \o <<idx>>)

\* tensor_getsetitem with is_set = FALSE on a tensor value and integer
\* subscripts (slices are not followed)
tensor_getsetitem(v1, idxs, junk) ==
    LET n_dims == Len(v1.dims)
        n_axis == Len(idxs)
        kept == n_dims - n_axis
    IN IF n_axis > n_dims THEN cval_type_error("too many axis")
       ELSE LET o == tensor_offsets(v1, idxs, junk, kept + 1, <<>>) IN
            IF cval_is_error(o.v) THEN o
            ELSE LET rdims == SubSeq(v1.dims, 1, kept)
                     base == tensor_size(rdims)
                     off == [j \in 1..n_axis |->
                                o.v.tab[j] * tensor_size(SubSeq(v1.dims, 1, kept + j - 1))]
                     pos == IF n_axis = 0 THEN 0
                            ELSE off[1] + (IF n_axis > 1 THEN off[2] ELSE 0)
                                        + (IF n_axis > 2 THEN off[3] ELSE 0)
                 IN IF n_axis > 3 THEN Ok(UNMODELLED)
                    ELSE IF kept = 0 THEN Ok(v1.tab[pos + 1])
                    ELSE call2("tensor_fill", call2("tensor_new", v1.elem, rdims),
                               [k \in 1..base |-> Ok(v1.tab[pos + k])])

\* cval_setitem(tab, idx, e1): tab and e1 are owned by the call and released
cval_setitem(H, tab, idx, e1) ==
    LET done(H1) == cval_free(cval_free(H1, tab), e1) IN
    IF ~IsRef(tab)
    THEN IF tab.tag = "Tensor" THEN X(H, UNMODELLED, NoErr)
         ELSE X(done(H), BC_EXCEPTION,
                cval_type_error("setitem is not supported for this type").e)
    ELSE
    LET o == H.objs[tab.id]
        i == cint_to_int(idx)
        len == o.dims[1]
    IN IF Len(o.dims) # 1 THEN X(H, UNMODELLED, NoErr)
       ELSE IF Fail(i) THEN X(done(H), BC_EXCEPTION, i.e)
       ELSE IF o.kind = "Array"
            THEN LET ix == IF idx.num < 0 THEN idx.num + len ELSE idx.num
                 IN IF ix < 0 \/ ix >= len
                    THEN X(done(H), BC_EXCEPTION,
                           cval_range_error("array index out of bounds").e)
                    ELSE X(done(set_value(cval_dup(H, e1), tab.id, ix + 1, e1)),
                           cnull_new, NoErr)
       \* a negative subscript is added to dims[i] before dims[i] is written
       ELSE IF idx.num < 0 THEN X(H, UNMODELLED, NoErr)
       ELSE IF idx.num >= len
            THEN X(done(H), BC_EXCEPTION, cval_range_error("tensor index out of bounds").e)
       ELSE LET c == call3("cval_convert_h", cval_dup(H, e1), e1, o.elem)
            IN IF Stop(c.v) THEN c
               ELSE IF cval_is_error(c.v) THEN X(done(c.h), BC_EXCEPTION, c.e)
               ELSE X(done(set_value(c.h, tab.id, idx.num + 1, c.v)), cnull_new, c.e)

\* cval_getitem(tab, idx): tab is owned by the call and released
cval_getitem(H, tab, idx) ==
    IF ~IsRef(tab)
    THEN IF tab.tag \in {"Tensor", "String", "Poly", "Ser"} THEN X(H, UNMODELLED, NoErr)
         ELSE X(H, BC_EXCEPTION, cval_type_error("getitem is not supported for this type").e)
    ELSE
    LET o == H.objs[tab.id]
        i == cint_to_int(idx)
        len == o.dims[1]
        ix == IF idx.num < 0 /\ o.kind = "Array" THEN idx.num + len ELSE idx.num
        oob == IF o.kind = "Array" THEN "array index out of bounds"
               ELSE "tensor index out of bounds"
    IN IF Len(o.dims) # 1 THEN X(H, UNMODELLED, NoErr)
       ELSE IF Fail(i) THEN X(cval_free(H, tab), BC_EXCEPTION, i.e)
       ELSE IF o.kind = "Tensor" /\ idx.num < 0 THEN X(H, UNMODELLED, NoErr)
       ELSE IF ix < 0 \/ ix >= len
            THEN X(cval_free(H, tab), BC_EXCEPTION, cval_range_error(oob).e)
       ELSE X(cval_free(cval_dup(H, o.tab[ix + 1]), tab), o.tab[ix + 1], NoErr)

(***************************************************************************)
(* Command lines.  A command is one operator or one function applied to    *)
(* operands; an operand is the value of an operand expression that was     *)
(* evaluated without error, or the name of a variable.                     *)
(***************************************************************************)
NoArg == [tag |-> "NoArg"]
NoCmd == [f |-> "none"]
Var(name) == [tag |-> "Var", name |-> name]
Cmd(f, op, x, y) == [f |-> f, op |-> op, x |-> x, y |-> y]

VarNames == {"_", "a", "b", "t"}
\* ve->value of a name that is not in ctx->var_list
Undefined == [tag |-> "Undefined"]

BinaryOps == {"+", "-", "*", "/", "//", "%", "==", "!=", "<", "<=", ">", ">="}
Functions2 == {"Fraction", "bestappr", "Complex"}
Functions1 == {"Float", "Decimal", "abs"}

\* the switch of eval_expr_binary
eval_expr_binary(op, v1, v2) ==
    CASE op = "//" -> cval_frac_div(v1, v2)
      [] op = "*" -> cval_mul(v1, v2)
      [] op = "/" -> cval_div(v1, v2)
      [] op = "%" -> cval_mod(v1, v2)
      [] op = "+" -> cval_add(v1, v2)
      [] op = "-" -> cval_sub(v1, v2)
      [] op = "<" -> cval_cmp_lt(v1, v2)
      [] op = ">" -> cval_cmp_lt(v2, v1)
      [] op = "<=" -> cval_cmp_le(v1, v2)
      [] op = ">=" -> cval_cmp_le(v2, v1)
      [] op = "==" -> cval_cmp_eq(v1, v2)
      [] OTHER -> call2("cval_cmp_neq", v1, v2)

(***************************************************************************)
(* Primality: trial division by the table of small primes.                 *)
(***************************************************************************)
small_primes ==
    <<2, 3, 5, 7, 11, 13, 17, 19, 23, 29, 31, 37, 41, 43, 47, 53, 59, 61, 67,
      71, 73, 79, 83, 89, 97, 101, 103, 107, 109, 113, 127, 131, 137, 139,
      149, 151, 157, 163, 167, 173, 179, 181, 191, 193, 197, 199, 211, 223,
      227, 229, 233, 239, 241, 251, 257, 263, 269, 271, 277, 281, 283, 293,
      307, 311, 313, 317, 331, 337, 347, 349, 353, 359, 367, 373, 379, 383,
      389, 397, 401, 409, 419, 421, 431, 433, 439, 443, 449, 457, 461, 463,
      467, 479, 487, 491, 499>>

\* cint_divide: b divides a, as the Bool of cval_cmp_eq_int
cint_divide(a, b) ==
    Bind(cval_mod(a, b), LAMBDA r : call2("cval_cmp_eq_int", r, 0))

\* the Miller-Rabin rounds are not followed
miller_rabin_test(n, t) == Ok(UNMODELLED)

\* the tests of iteration i (0-based) of the for loop of is_prime, on an
\* Integer n
is_prime_divides(n, i) ==
    call2("cint_divide", n, cint_from_int(small_primes[i + 1])).v.num = 1
is_prime_below(n, i) ==
    call2("cval_cmp_lt_int", n, small_primes[i + 1] * small_primes[i + 1]).v.num = 1

\* the for loop of is_prime: it returns in the first iteration where d
\* divides n (FALSE) or n < d * d (TRUE), the division being tested first
is_prime_loop(n, t) ==
    LET stops == {i \in 0..(Len(small_primes) - 1) :
                     is_prime_divides(n, i) \/ is_prime_below(n, i)}
    IN IF stops = {} THEN miller_rabin_test(n, t)
       ELSE LET i == CHOOSE k \in stops : \A l \in stops : k <= l
            IN IF is_prime_divides(n, i) THEN Ok(cbool_new(FALSE))
               ELSE Ok(cbool_new(TRUE))

\* is_prime: the C BOOL as a Bool value; t = 0 stands for 64 rounds
is_prime(n, t) ==
    LET t1 == IF t = 0 THEN 64 ELSE t IN
    IF Bad(n) \/ n.tag # "Int" THEN Ok(CRASH)
    ELSE Bind(call2("cval_cmp_lt_int", n, 2), LAMBDA lt :
             IF lt.num = 1 THEN Ok(cbool_new(FALSE))
             ELSE is_prime_loop(n, t1))

\* cint_isprime(n_args, args): v2 is NoArg when n_args = 1
cint_isprime(v1, v2) ==
    IF Bad(v1) THEN Ok(Die(v1))
    ELSE IF v1.tag # "Int" THEN cval_type_error("integer expected")
    ELSE IF v2 # NoArg /\ Bad(v2) THEN Ok(Die(v2))
    ELSE LET t == IF v2 = NoArg THEN Ok(cint_from_int(0)) ELSE cint_to_int(v2) IN
         IF cval_is_error(t.v) THEN t
         ELSE call2("is_prime", v1, t.v.num)

\* cval_call of a built-in function registered by add_functions
cval_call(name, v1, v2) ==
    CASE name = "Fraction" -> call2("cfrac_new", v1, v2)
      [] name = "bestappr" -> call2("cval_bestappr", v1, v2)
      [] name = "Complex" -> call2("complex_new", v1, v2)
      [] name = "Float" -> cfloat_ctor(v1)
      [] name = "abs" -> cval_abs(v1)
      [] name = "Polynomial" -> call1("poly_ctor", v1)
      [] name = "deriv" -> cval_deriv(v1)
      [] name = "integ" -> cval_integ(v1)
      [] name = "O" -> call1("ser_O", v1)
      [] name = "inverse" -> call1("cval_inverse", v1)
      [] name = "sin" -> call2("cval_op1", v1, "SIN")
      [] name = "cos" -> call2("cval_op1", v1, "COS")
      [] name = "exp" -> call2("cval_op1", v1, "EXP")
      [] name = "log" -> call2("cval_op1", v1, "LOG")
      [] name = "isprime" -> call2("cint_isprime", v1, v2)
      [] name = "gcd" -> call2("cval_gcd", v1, v2)
      [] name = "trunc" -> cval_trunc(v1)
      [] name = "floor" -> cval_floor(v1)
      [] name = "ceil" -> call2("cval_op1", v1, "CEIL")
      [] name = "round" -> call2("cval_op1", v1, "ROUND")
      [] OTHER -> cdec_ctor(v1)

get_variable(vt, name) ==
    IF vt[name] = Undefined
    THEN cval_throw_error_buf("ReferenceError", "variable '" \o name \o "' is not defined")
    ELSE Ok(vt[name])

\* the call name(x) of a function of one argument, as an operand
Call(name, x) == [tag |-> "Call", name |-> name, x |-> x]

\* the sub-expression x op y, as an operand
Op2(op, x, y) == [tag |-> "Op2", op |-> op, x |-> x, y |-> y]

\* an operand: a call is evaluated (eval_function), a sub-expression with
\* eval_expr_binary, a variable is read with get_variable; the operators of
\* the value engine are followed on immediate values only
operand(vt, a) ==
    IF a.tag = "Call"
    THEN LET x == call2("operand", vt, a.x)
         IN IF Fail(x) THEN x ELSE After(x.e, call3("cval_call", a.name, x.v, NoArg))
    ELSE IF a.tag = "Op2"
    THEN LET x == call2("operand", vt, a.x) IN
         IF Fail(x) THEN x ELSE
         LET y == call2("operand", vt, a.y) IN
         IF Fail(y) THEN After(x.e, y)
         ELSE After(Then(x.e, y.e), call3("eval_expr_binary", a.op, x.v, y.v))
    ELSE IF a.tag # "Var" THEN Ok(a)
    ELSE LET r == get_variable(vt, a.name)
         IN IF IsRef(r.v) THEN Ok(UNMODELLED) ELSE r

\* eval_expr on an operator or function applied to operands: the returned
\* value, or the sentinel after the longjmp of check_error
eval_expr(vt, c) ==
    LET x == operand(vt, c.x) IN
    IF Fail(x) THEN x ELSE
    LET y == IF c.y = NoArg THEN Ok(NoArg) ELSE operand(vt, c.y) IN
    IF Fail(y) THEN After(x.e, y) ELSE
    After(Then(x.e, y.e),
        CASE c.f = "op2" -> call3("eval_expr_binary", c.op, x.v, y.v)
          [] c.f = "pow" -> call2("cval_pow", x.v, y.v)
          [] c.f = "neg" -> cval_neg(x.v)
          [] OTHER -> call3("cval_call", c.op, x.v, y.v))

(***************************************************************************)
(* Statements on containers: name = source, name[i] = source, name[i].     *)
(* A source is an immediate value, a variable, a one-axis literal          *)
(* [x, y] or the call Array(x, y).                                         *)
(***************************************************************************)
Lit(cells) == [tag |-> "Lit", cells |-> cells]
ArrayCtor(cells) == [tag |-> "ArrayCtor", cells |-> cells]
Let(name, src) == Cmd("let", name, src, NoArg)
SetItem(name, i, src) == Cmd("setitem", name, cint_from_int(i), src)
GetItem(name, i) == Cmd("getitem", name, cint_from_int(i), NoArg)
\* t[i, j, ...] on a tensor literal t; junk is what the stack holds in
\* dims[] of tensor_getsetitem when the line is evaluated
Index(t, idxs, junk) ==
    Cmd("index", "[]", t, [tag |-> "Subscript", idx |-> idxs, junk |-> junk])

\* get_variable with its cval_dup
get_variable_h(H, vt, name) ==
    LET r == get_variable(vt, name)
    IN IF Fail(r) THEN X(H, r.v, r.e) ELSE X(cval_dup(H, r.v), r.v, NoErr)

RECURSIVE eval_array_literal(_, _, _, _, _)
\* the elements of a literal, pushed in order; an error leaves by longjmp
eval_array_literal(H, vt, ops, i, acc) ==
    IF i > Len(ops) THEN X(H, acc, NoErr)
    ELSE LET r == IF ops[i].tag = "Var" THEN get_variable_h(H, vt, ops[i].name)
                  ELSE X(H, ops[i], NoErr)
         IN IF Fail(r) THEN r
            ELSE eval_array_literal(r.h, vt, ops, i + 1, Append(acc, r.v))

\* the right-hand side of an assignment
eval_source(H, vt, s) ==
    CASE s.tag = "Var" -> get_variable_h(H, vt, s.name)
      [] s.tag = "Lit" ->
            LET a == eval_array_literal(H, vt, s.cells, 1, <<>>)
            IN IF Fail(a) THEN a ELSE call2("tensor_from_array", a.h, a.v)
      [] s.tag = "ArrayCtor" ->
            X(alloc(H, cval_new1("Array", NoType, <<Len(s.cells)>>, s.cells)),
              newref(H), NoErr)
      [] OTHER -> X(H, s, NoErr)

\* set_variable(name, val): cval_dup(val), then the old value is released
set_variable(S, name, v) ==
    LET H1 == cval_dup(S.h, v)
        old == S.vt[name]
    IN [S EXCEPT !.h = IF old = Undefined THEN H1 ELSE cval_free(H1, old),
                 !.vt = [S.vt EXCEPT ![name] = v]]

\* the operators whose operands are given to cval_op2 as they are
ObjectOps == {"+", "-", "*"}
\* the command line is x op y on variables and immediate values, and one of
\* the variables is bound to a tensor or an array
OnObjects(vt, c) ==
    /\ c.f = "op2"
    /\ c.op \in ObjectOps
    /\ c.x.tag \notin {"Call", "Op2"}
    /\ c.y.tag \notin {"Call", "Op2"}
    /\ \E a \in {c.x, c.y} : a.tag = "Var" /\ IsRef(vt[a.name])

\* cval_type of a value that may be an object of the heap
cval_type_h(H, v) == IF IsRef(v) THEN TagNum(H.objs[v.id].kind) ELSE cval_type(v)

\* cval_op2 when an operand is an array of the heap: no branch applies and
\* the TypeError is returned; v1 and v2 are not released
cval_op2_h(H, v1, v2, op) ==
    LET max_type == ctype_str[max_int(cval_type_h(H, v1), cval_type_h(H, v2))]
        Hr == [H EXCEPT !.uaf = @ \/ \E v \in {v1, v2} : IsRef(v) /\ ~H.objs[v.id].live]
    IN IF max_type \in {"Array", "Function", "String", "Null", "Range"}
          /\ ~(v1.tag = "String" /\ v2.tag = "String" /\ op = "ADD")
       THEN X(Hr, BC_EXCEPTION, cval_type_error("incompatible types").e)
       ELSE X(H, UNMODELLED, NoErr)

\* eval_expr_binary on x op y: val, then val2, then the operator; where val2
\* fails, check_error leaves by longjmp and val is not released
eval_expr_binary_h(H, vt, c) ==
    LET operand_h(Hx, a) == IF a.tag = "Var" THEN get_variable_h(Hx, vt, a.name)
                            ELSE X(Hx, a, NoErr)
        x == operand_h(H, c.x)
    IN IF Fail(x) THEN x
       ELSE LET y == operand_h(x.h, c.y)
            IN IF Fail(y) THEN y
               ELSE LET w == call4("cval_op2_h", y.h, x.v, y.v,
                                   CASE c.op = "+" -> "ADD" [] c.op = "-" -> "SUB"
                                     [] OTHER -> "MUL")
                    IN X(w.h, w.v, Then(Then(x.e, y.e), w.e))

\* the state of an evaluation: heap, variables, returned value, slot write
St(H, vt, v, e) == [h |-> H, vt |-> vt, v |-> v, e |-> e]

\* eval_postfix_expr on an assignment or a subscript, eval_expr otherwise
eval_statement(H, vt, c) ==
    CASE c.f = "let" ->
            LET r == call3("eval_source", H, vt, c.x)
            IN IF Fail(r) THEN St(r.h, vt, r.v, r.e)
               ELSE set_variable(St(r.h, vt, r.v, r.e), c.op, r.v)
      [] c.f = "setitem" ->
            LET t == get_variable_h(H, vt, c.op) IN
            IF Fail(t) THEN St(t.h, vt, t.v, t.e) ELSE
            LET r == call3("eval_source", t.h, vt, c.y) IN
            IF Fail(r) THEN St(r.h, vt, r.v, r.e) ELSE
            LET w == call4("cval_setitem", cval_dup(r.h, r.v), t.v, c.x, r.v)
            IN IF Fail(w) THEN St(w.h, vt, w.v, Then(r.e, w.e))
               ELSE St(w.h, vt, r.v, Then(r.e, w.e))
      [] c.f = "getitem" ->
            LET t == get_variable_h(H, vt, c.op) IN
            IF Fail(t) THEN St(t.h, vt, t.v, t.e) ELSE
            LET w == call3("cval_getitem", t.h, t.v, c.x)
            IN St(w.h, vt, w.v, w.e)
      [] OnObjects(vt, c) ->
            LET w == call3("eval_expr_binary_h", H, vt, c)
            IN St(w.h, vt, w.v, w.e)
      [] c.f = "index" ->
            LET r == call3("tensor_getsetitem", c.x, c.y.idx, c.y.junk)
            IN St(H, vt, r.v, r.e)
      [] OTHER -> LET r == call2("eval_expr", vt, c) IN St(H, vt, r.v, r.e)

\* the functions of the source, by name
dispatch(c) ==
    CASE c[1] = "to_cint" -> to_cint(c[2])
      [] c[1] = "cint_op2" -> cint_op2(c[2], c[3], c[4])
      [] c[1] = "cint_op1" -> cint_op1(c[2], c[3])
      [] c[1] = "cint_gcd" -> cint_gcd(c[2], c[3])
      [] c[1] = "cfrac_new" -> cfrac_new(c[2], c[3])
      [] c[1] = "to_cfrac" -> to_cfrac(c[2])
      [] c[1] = "cfrac_op2" -> cfrac_op2(c[2], c[3], c[4])
      [] c[1] = "cfrac_op1" -> cfrac_op1(c[2], c[3])
      [] c[1] = "to_dec1" -> to_dec1(c[2], c[3])
      [] c[1] = "cdec_op2" -> cdec_op2(c[2], c[3], c[4])
      [] c[1] = "cdec_op1" -> cdec_op1(c[2], c[3])
      [] c[1] = "to_float1" -> to_float1(c[2], c[3])
      [] c[1] = "cfloat_op2" -> cfloat_op2(c[2], c[3], c[4])
      [] c[1] = "cfloat_op1" -> cfloat_op1(c[2], c[3])
      [] c[1] = "complex_new2" -> complex_new2(c[2], c[3], c[4])
      [] c[1] = "complex_new" -> complex_new(c[2], c[3])
      [] c[1] = "to_complex" -> to_complex(c[2])
      [] c[1] = "complex_norm2" -> complex_norm2(c[2])
      [] c[1] = "complex_inverse" -> complex_inverse(c[2])
      [] c[1] = "complex_op2" -> complex_op2(c[2], c[3], c[4])
      [] c[1] = "complex_op1" -> complex_op1(c[2], c[3])
      [] c[1] = "tensor_new" -> tensor_new(c[2], c[3])
      [] c[1] = "tensor_op1" -> tensor_op1(c[2], c[3])
      [] c[1] = "to_tensor" -> to_tensor(c[2])
      [] c[1] = "matrix_mul" -> matrix_mul(c[2], c[3])
      [] c[1] = "tensor_op2" -> tensor_op2(c[2], c[3], c[4])
      [] c[1] = "tensor_convert" -> tensor_convert(c[2], c[3])
      [] c[1] = "cval_convert" -> cval_convert(c[2], c[3])
      [] c[1] = "cval_op2" -> cval_op2(c[2], c[3], c[4])
      [] c[1] = "cval_op1" -> cval_op1(c[2], c[3])
      [] c[1] = "cval_inverse" -> cval_inverse(c[2])
      [] c[1] = "generic_pow" -> generic_pow(c[2], c[3])
      [] c[1] = "cval_pow" -> cval_pow(c[2], c[3])
      [] c[1] = "cval_bestappr" -> cval_bestappr(c[2], c[3])
      [] c[1] = "tensor_convert_h" -> tensor_convert_h(c[2], c[3], c[4])
      [] c[1] = "cval_convert_h" -> cval_convert_h(c[2], c[3], c[4])
      [] c[1] = "tensor_from_array" -> tensor_from_array(c[2], c[3])
      [] c[1] = "cval_setitem" -> cval_setitem(c[2], c[3], c[4], c[5])
      [] c[1] = "cval_getitem" -> cval_getitem(c[2], c[3], c[4])
      [] c[1] = "eval_expr_binary" -> eval_expr_binary(c[2], c[3], c[4])
      [] c[1] = "cval_call" -> cval_call(c[2], c[3], c[4])
      [] c[1] = "eval_expr" -> eval_expr(c[2], c[3])
      [] c[1] = "eval_source" -> eval_source(c[2], c[3], c[4])
      [] c[1] = "eval_statement" -> eval_statement(c[2], c[3], c[4])
      [] c[1] = "get_op2_type" -> get_op2_type(c[2], c[3], c[4])
      [] c[1] = "op2_type_fold" -> op2_type_fold(c[2], c[3], c[4], c[5])
      [] c[1] = "num_op2" -> num_op2(c[2], c[3], c[4], c[5])
      [] c[1] = "num_op1" -> num_op1(c[2], c[3], c[4])
      [] c[1] = "tensor_broadcast" -> tensor_broadcast(c[2], c[3])
      [] c[1] = "tensor_fill" -> tensor_fill(c[2], c[3])
      [] c[1] = "cval_cmp_eq_int" -> cval_cmp_eq_int(c[2], c[3])
      [] c[1] = "cint_divide" -> cint_divide(c[2], c[3])
      [] c[1] = "poly_gcd" -> poly_gcd(c[2], c[3])
      [] c[1] = "cval_gcd" -> cval_gcd(c[2], c[3])
      [] c[1] = "is_prime" -> is_prime(c[2], c[3])
      [] c[1] = "cint_isprime" -> cint_isprime(c[2], c[3])
      [] c[1] = "cval_cmp_lt_int" -> cval_cmp_lt_int(c[2], c[3])
      [] c[1] = "cval_cmp_eq2" -> cval_cmp_eq2(c[2], c[3])
      [] c[1] = "cval_cmp_neq" -> cval_cmp_neq(c[2], c[3])
      [] c[1] = "poly_new" -> poly_new(c[2], c[3])
      [] c[1] = "poly_fill" -> poly_fill(c[2], c[3], c[4])
      [] c[1] = "poly_ctor" -> poly_ctor(c[2])
      [] c[1] = "to_poly" -> to_poly(c[2])
      [] c[1] = "poly_convert" -> poly_convert(c[2], c[3])
      [] c[1] = "poly_add" -> poly_add(c[2], c[3], c[4])
      [] c[1] = "poly_cmp_eq" -> poly_cmp_eq(c[2], c[3])
      [] c[1] = "poly_op2" -> poly_op2(c[2], c[3], c[4])
      [] c[1] = "poly_deriv" -> poly_deriv(c[2])
      [] c[1] = "poly_integ" -> poly_integ(c[2])
      [] c[1] = "operand" -> operand(c[2], c[3])
      [] c[1] = "poly_mul" -> poly_mul(c[2], c[3])
      [] c[1] = "poly_op1" -> poly_op1(c[2], c[3])
      [] c[1] = "poly_apply" -> poly_apply(c[2], c[3])
      [] c[1] = "ser_new" -> ser_new(c[2], c[3], c[4])
      [] c[1] = "ser_O" -> ser_O(c[2])
      [] c[1] = "to_ser" -> to_ser(c[2], c[3])
      [] c[1] = "ser_neg" -> ser_neg(c[2])
      [] c[1] = "ser_convert" -> ser_convert(c[2], c[3])
      [] c[1] = "ser_add_terms" -> ser_add_terms(c[2], c[3], c[4])
      [] c[1] = "ser_add" -> ser_add(c[2], c[3])
      [] c[1] = "ser_mul" -> ser_mul(c[2], c[3])
      [] c[1] = "ser_op2" -> ser_op2(c[2], c[3], c[4])
      [] c[1] = "ser_apply" -> ser_apply(c[2], c[3])
      [] c[1] = "ser_exp" -> ser_exp(c[2])
      [] c[1] = "ser_log" -> ser_log(c[2])
      [] c[1] = "cval_op2_h" -> cval_op2_h(c[2], c[3], c[4], c[5])
      [] c[1] = "eval_expr_binary_h" -> eval_expr_binary_h(c[2], c[3], c[4])
      [] c[1] = "tensor_getsetitem" -> tensor_getsetitem(c[2], c[3], c[4])
      [] c[1] = "ser_re_im" -> ser_re_im(c[2], c[3])
      [] c[1] = "ser_op1" -> ser_op1(c[2], c[3])
      [] c[1] = "matrix_inverse" -> matrix_inverse(c[2])

(***************************************************************************)
(* Operand values: what the literals and constructor calls of a command    *)
(* line evaluate to.                                                       *)
(***************************************************************************)
Lits == (-MaxLit)..MaxLit
Halves == {1, 3, 5}

BoolAtoms == {cbool_new(TRUE), cbool_new(FALSE)}
IntAtoms == {cint_from_int(n) : n \in Lits}
\* what -1//2, 0//2, 1//2 and 3//2 evaluate to
FracAtoms == {Num("Frac", -1, 2), Num("Frac", 0, 1), Num("Frac", 1, 2), Num("Frac", 3, 2)}
DecAtoms == {Num("Dec", 0, 1)} \cup {Rnd("Dec", Q(n, 2)) : n \in Halves}
FloatAtoms == {Rnd("Float", Q(n, 2)) : n \in Halves}
StringAtoms == {cstring_new("abc"), cstring_new("d")}
ComplexAtoms ==
    {[tag |-> "Complex", elem |-> def_type("Int"),
      re |-> cint_from_int(1), im |-> cint_from_int(2)],
     [tag |-> "Complex", elem |-> def_type("Dec"),
      re |-> Rnd("Dec", Q(1, 2)), im |-> Rnd("Dec", Q(3, 2))],
     [tag |-> "Complex", elem |-> def_type("Float"),
      re |-> Rnd("Float", Q(3, 2)), im |-> Rnd("Float", Q(5, 2))]}
TensorAtoms ==
    {Tensor(def_type("Int"), <<2>>, <<cint_from_int(1), cint_from_int(2)>>),
     Tensor(def_type("Dec"), <<2>>, <<Rnd("Dec", Q(1, 2)), Rnd("Dec", Q(3, 2))>>),
     Tensor(def_type("Float"), <<2>>, <<Rnd("Float", Q(1, 2)), Rnd("Float", Q(3, 2))>>)}

Atoms == BoolAtoms \cup IntAtoms \cup FracAtoms \cup DecAtoms \cup FloatAtoms
         \cup StringAtoms \cup {cnull_new} \cup ComplexAtoms \cup TensorAtoms

\* the command lines typed into a fresh context
Menu ==
    {Cmd("op2", op, x, y) : op \in BinaryOps, x \in Atoms, y \in Atoms}
    \cup {Cmd("pow", "^", x, y) : x \in Atoms, y \in Atoms}
    \cup {Cmd("call", f, x, y) : f \in Functions2, x \in Atoms, y \in Atoms}
    \cup {Cmd("call", f, x, NoArg) : f \in Functions1, x \in Atoms}
    \cup {Cmd("neg", "-", x, NoArg) : x \in Atoms}

\* the statements on containers, typed at any time; each line ends with ';',
\* so that eval_buf does not print the result
ContainerMenu ==
    {Let("a", Lit(<<cint_from_int(1), cint_from_int(2)>>)),
     Let("a", ArrayCtor(<<cint_from_int(1), cint_from_int(2)>>)),
     Let("b", Var("a")),
     SetItem("b", 0, cint_from_int(0)),
     GetItem("a", 0),
     Let("t", Lit(<<Var("a"), Var("a")>>)),
     SetItem("t", 0, Lit(<<Rnd("Dec", Q(1, 2)), Rnd("Dec", Q(3, 2))>>)),
     Let("b", Lit(<<Rnd("Dec", Q(1, 2)), Rnd("Dec", Q(3, 2))>>)),
     SetItem("t", 0, Var("b")),
     SetItem("a", 0, Var("a"))}

\* the command lines typed afterwards
FollowMenu ==
    {Cmd("op2", op, Var("_"), cint_from_int(1)) : op \in {"+", "=="}}
    \cup {Cmd("call", "bestappr", Rnd("Dec", Q(3, 2)), y) : y \in {cint_from_int(2), Rnd("Dec", Q(5, 2))}}
    \cup {Cmd("op2", "+", Var("a"), cint_from_int(1))}

\* coefficients of the polynomials of a session
Coefs ==
    {cint_from_int(n) : n \in (-1)..MaxLit}
    \cup {Num("Frac", 1, 2), Rnd("Dec", Q(1, 2)), Rnd("Float", Q(3, 2)),
          [tag |-> "Complex", elem |-> def_type("Int"),
           re |-> cint_from_int(1), im |-> cint_from_int(2)]}

\* the arguments of Polynomial(...): Array(x), Array(x, y), Array(x, y, z),
\* one-axis tensors and constants
PolySources ==
    {carray_ctor(<<x>>) : x \in Coefs}
    \cup {carray_ctor(<<x, y>>) : x \in Coefs,
                                   y \in {cint_from_int(0), cint_from_int(1),
                                          Rnd("Dec", Q(1, 2))}}
    \cup {carray_ctor(<<x, y, z>>) : x \in IntAtoms, y \in {cint_from_int(1)},
                                      z \in {cint_from_int(0), cint_from_int(1)}}
    \cup {carray_ctor(<<Num("Frac", 1, 2), cint_from_int(1), x>>) :
            x \in {Num("Frac", 0, 1), Num("Frac", 1, 2)}}
    \cup TensorAtoms
    \cup {Tensor(def_type("Int"), <<2>>, <<cint_from_int(n), cint_from_int(0)>>) : n \in 0..1}
    \cup Coefs \cup StringAtoms

\* the command lines on polynomials typed into a fresh context
PolyMenu ==
    {Cmd("call", "Polynomial", x, NoArg) : x \in PolySources}
    \cup {Cmd("call", f, Call("Polynomial", x), NoArg) :
            f \in {"Polynomial", "deriv", "integ"}, x \in PolySources}
    \cup {Cmd("call", "deriv", Call("integ", Call("Polynomial", x)), NoArg) :
            x \in PolySources}

\* the command lines on the last result typed afterwards
PolyFollow ==
    {Cmd("call", f, Var("_"), NoArg) : f \in {"Polynomial", "deriv", "integ"}}
    \cup {Cmd("op2", "-", Var("_"), cint_from_int(1)),
          Cmd("op2", "==", Var("_"), Var("_"))}

\* p + O(X^n), for polynomials p of small Int coefficients
SerPolys ==
    {carray_ctor(<<cint_from_int(x)>>) : x \in (-1)..1}
    \cup {carray_ctor(<<cint_from_int(x), cint_from_int(y)>>) : x \in (-1)..1, y \in (-1)..1}
    \cup {carray_ctor(<<cint_from_int(0), cint_from_int(0), cint_from_int(1)>>)}
SerOrders ==
    {carray_ctor(<<cint_from_int(0)>>),
     carray_ctor(<<cint_from_int(1)>>),
     carray_ctor(<<cint_from_int(0), cint_from_int(1)>>),
     carray_ctor(<<cint_from_int(0), cint_from_int(0), cint_from_int(1)>>),
     carray_ctor(<<cint_from_int(0), cint_from_int(0), cint_from_int(0), cint_from_int(1)>>)}
SumPolys ==
    {carray_ctor(<<cint_from_int(x)>>) : x \in {-1, 1}}
    \cup {carray_ctor(<<cint_from_int(0), cint_from_int(y)>>) : y \in {-1, 1}}
    \cup {carray_ctor(<<cint_from_int(1), cint_from_int(1)>>)}
SumOrders == SerOrders \ {carray_ctor(<<cint_from_int(0)>>)}
SerExpr(p, q) == Op2("+", Call("Polynomial", p), Call("O", Call("Polynomial", q)))

\* the command lines on series typed into a fresh context
SeriesMenu ==
    {Cmd("op2", "+", Call("Polynomial", p), Call("O", Call("Polynomial", q))) :
        p \in SerPolys, q \in SerOrders}

\* the sums of two series typed into a fresh context
SeriesSums ==
    {Cmd("op2", "+", SerExpr(p1, q1), SerExpr(p2, q2)) :
        p1 \in SumPolys, q1 \in SumOrders, p2 \in SumPolys, q2 \in SumOrders}

\* the command lines typed next: the last result and a second series
SeriesFollow ==
    {Cmd("op2", op, Var("_"), SerExpr(p, q)) :
        op \in {"+", "-", "*"},
        p \in SumPolys, q \in SumOrders \ {carray_ctor(<<cint_from_int(1)>>)}}
    \cup {Cmd("op2", "+", SerExpr(carray_ctor(<<cint_from_int(0), cint_from_int(1)>>),
                                 carray_ctor(<<cint_from_int(0), cint_from_int(0), cint_from_int(1)>>)),
               Var("_"))}

\* the command lines on the last result typed at any time afterwards
SeriesUnary ==
    {Cmd("call", f, Var("_"), NoArg) : f \in {"sin", "cos", "exp"}}
    \cup {Cmd("neg", "-", Var("_"), NoArg),
          Cmd("op2", "-", Var("_"), Var("_")),
          Cmd("op2", "+", Var("_"), cint_from_int(1))}

\* exp and log of the series O(q) without known coefficients
EmptySeriesMenu ==
    {Cmd("call", f, Call("O", Call("Polynomial", q)), NoArg) :
        f \in {"exp", "log"},
        q \in SerOrders \cup {carray_ctor(<<Num("Frac", 1, 2)>>),
                              carray_ctor(<<cint_from_int(0), Num("Frac", 1, 2)>>),
                              carray_ctor(<<Rnd("Dec", Q(1, 2))>>)}}

\* the cells of the matrix literals of a session
FracCells == {Num("Frac", 0, 1), Num("Frac", 1, 1), Num("Frac", -1, 1), Num("Frac", 1, 2)}
IntCells == {cint_from_int(n) : n \in 0..MaxLit}
\* the lines [0, 0, 1], [1, 0, 0], [0, 1, 0] and [1, 1, 0] of Fractions
BitLines ==
    {[i \in 1..3 |-> Num("Frac", IF i \in on THEN 1 ELSE 0, 1)] :
        on \in {{3}, {1}, {2}, {1, 2}}}

\* what the literals [[a]], [[a, b], [c, d]] and [[a, b, c], ...] evaluate to
Matrices ==
    {Tensor(def_type("Frac"), <<1, 1>>, <<a>>) : a \in FracCells}
    \cup {Tensor(def_type("Frac"), <<2, 2>>, <<a, b, c, d>>) :
            a \in FracCells, b \in FracCells, c \in FracCells, d \in FracCells}
    \cup {Tensor(def_type("Int"), <<2, 2>>, <<a, b, c, d>>) :
            a \in IntCells, b \in IntCells, c \in IntCells, d \in IntCells}
    \cup {Tensor(def_type("Frac"), <<3, 3>>, r1 \o r2 \o r3) :
            r1 \in BitLines, r2 \in BitLines, r3 \in BitLines}
    \cup {Tensor(def_type("Frac"), <<2, 1>>, <<a, Num("Frac", 1, 1)>>) : a \in FracCells}
    \cup {Tensor(def_type("Int"), <<2>>, <<cint_from_int(1), cint_from_int(2)>>)}

\* the command lines on matrices typed into a fresh context
MatrixMenu ==
    {Cmd("call", "inverse", m, NoArg) : m \in Matrices}
    \cup {Cmd("op2", "*", m, Call("inverse", m)) : m \in Matrices}

\* the command lines on the last result typed afterwards
MatrixFollow ==
    {Cmd("call", "inverse", Var("_"), NoArg),
     Cmd("op2", "-", Var("_"), Var("_"))}

\* the largest arguments that trial division decides, and the first it
\* does not
NearLimit ==
    LET p == small_primes[Len(small_primes)]
    IN {p * p - 20, p * p - 14, p * p - 4, p * p - 2, p * p - 1, p * p}

\* the command lines on primality typed into a fresh context
PrimeMenu ==
    {Cmd("call", "isprime", cint_from_int(n), NoArg) : n \in (-3..MaxPrime) \cup NearLimit}
    \cup {Cmd("call", "isprime", cint_from_int(n), t) :
             n \in 1..4, t \in {cint_from_int(1), Num("Frac", 1, 2)}}
    \cup {Cmd("call", "isprime", x, NoArg) :
             x \in {cbool_new(TRUE), Num("Frac", 1, 2), Rnd("Dec", Q(2, 1))}}

\* the command lines typed afterwards
PrimeFollow ==
    {Cmd("call", "isprime", Var("_"), NoArg)}
    \cup {Cmd("call", "isprime", cint_from_int(n), NoArg) : n \in 1..3}

\* the shapes of the tensor literals of a session on broadcasting: dims[0]
\* first
Shapes == {<<1>>, <<2>>, <<3>>, <<1, 2>>, <<2, 1>>, <<2, 2>>, <<2, 3>>, <<2, 1, 2>>}

\* what the literals of these shapes evaluate to, with Integer cells
\* 1, 2, 0, 1, ... and with Fraction cells 1/2, 0, 1/2, ...
ShapedTensors ==
    {Tensor(def_type("Int"), s, [i \in 1..tensor_size(s) |-> cint_from_int(i % 3)]) :
        s \in Shapes}
    \cup {Tensor(def_type("Frac"), s,
                 [i \in 1..tensor_size(s) |->
                     IF i % 2 = 1 THEN Num("Frac", 1, 2) ELSE Num("Frac", 0, 1)]) :
            s \in Shapes}

\* the operators that tensor_op2 applies cell by cell
ElementwiseOps == {"+", "-", "//", "==", "<"}

\* the command lines on two tensors typed into a fresh context
BroadcastMenu ==
    {Cmd("op2", op, x, y) : op \in ElementwiseOps, x \in ShapedTensors, y \in ShapedTensors}

\* the command lines on the last result typed afterwards
BroadcastFollow ==
    {Cmd("op2", "+", Var("_"), Var("_")),
     Cmd("op2", "-", Var("_"),
         Tensor(def_type("Int"), <<2>>, <<cint_from_int(1), cint_from_int(2)>>))}

\* the arguments of gcd that are not Integer literals
GcdOthers ==
    {Call("Polynomial", carray_ctor(<<cint_from_int(1), cint_from_int(1)>>)),
     Call("Polynomial", carray_ctor(<<Num("Frac", 1, 2), cint_from_int(1)>>)),
     Num("Frac", 1, 2), Rnd("Dec", Q(1, 2)), cbool_new(TRUE), cstring_new("abc"),
     [tag |-> "Complex", elem |-> def_type("Int"),
      re |-> cint_from_int(1), im |-> cint_from_int(2)],
     Tensor(def_type("Int"), <<2>>, <<cint_from_int(1), cint_from_int(2)>>)}

\* the command lines on gcd typed into a fresh context
GcdMenu ==
    {Cmd("call", "gcd", cint_from_int(a), cint_from_int(b)) :
        a \in (-MaxGcd)..MaxGcd, b \in (-MaxGcd)..MaxGcd}
    \cup {Cmd("call", "gcd", x, y) :
            x \in GcdOthers \cup {cint_from_int(2)}, y \in GcdOthers \cup {cint_from_int(2)}}

\* the command lines typed afterwards
GcdFollow ==
    {Cmd("call", "gcd", Var("_"), cint_from_int(4)),
     Cmd("call", "gcd", cint_from_int(4), Var("_"))}

\* the rounding functions registered by add_functions
RoundFns == {"trunc", "floor", "ceil", "round"}

\* the command lines on rounding typed into a fresh context
RoundMenu == {Cmd("call", f, x, NoArg) : f \in RoundFns, x \in Atoms}

\* the command lines typed afterwards
RoundFollow == {Cmd("call", f, Var("_"), NoArg) : f \in RoundFns}

\* assignments of arrays and of an Integer, and operators on the variables
CountLets ==
    {Let("a", ArrayCtor(<<cint_from_int(1), cint_from_int(2)>>)),
     Let("b", Var("a")),
     Let("b", cint_from_int(2)),
     Let("a", cint_from_int(1))}
CountOperands == {Var("a"), Var("b"), Var("t"), cint_from_int(1)}
CountMenu ==
    {Cmd("op2", op, x, y) : op \in ObjectOps, x \in CountOperands, y \in CountOperands}

\* the subscripts tried on each axis, and what dims[] may hold
Subscripts == (0 - MaxIdx)..MaxIdx
Junk == 0..MaxJunk
\* tensor literals whose cells are all different: [1, 2], [1, 2, 3] and
\* [[1, 2, 3], [4, 5, 6]]
IndexTensors ==
    {Tensor(def_type("Int"), s, [i \in 1..tensor_size(s) |-> cint_from_int(i)]) :
        s \in {<<2>>, <<3>>, <<3, 2>>}}
\* the subscript lists of n integers
SubscriptLists(n) ==
    {[k \in 1..n |-> cint_from_int(q[k])] : q \in [1..n -> Subscripts]}
\* the contents of dims[] that matter to t[idxs]: the entries read for a
\* negative subscript
JunkFor(t, idxs) ==
    {j \in [1..Len(t.dims) -> Junk] :
        \A a \in 1..Len(t.dims) :
            LET k == Len(t.dims) - a + 1
            IN (k > Len(idxs) \/ idxs[k].num >= 0) => j[a] = 0}
IndexMenu ==
    UNION {UNION {{Index(t, idxs, j) : j \in JunkFor(t, idxs)} :
                    idxs \in UNION {SubscriptLists(n) : n \in 1..Len(t.dims)}} :
            t \in IndexTensors}
    \cup {Index(t, [k \in 1..(Len(t.dims) + 1) |-> cint_from_int(0)],
                 [a \in 1..Len(t.dims) |-> 0]) : t \in IndexTensors}

\* the command lines of a session of operators and functions, by position
Typed(n) == IF n = 0 THEN Menu ELSE FollowMenu

\* the model decides the command
InModel(H, vt, c) == call3("eval_statement", H, vt, c).v # UNMODELLED

(***************************************************************************)
(* The context and the read-eval-print loop.                               *)
(***************************************************************************)
\* bc_get_error was not called
NotReported == [type |-> "none", msg |-> ""]

\* the locals of main and the position of the process: "options" in the
\* while loop of main, "start" after it, "eval" in eval_buf for -e, "repl" in
\* repl_run, "exited" with the exit status ret, "died"
Main(pc, argv) ==
    [pc |-> pc, argv |-> argv, arg_idx |-> 1, js_mode |-> 0, hex_mode |-> 0,
     test_mode |-> 0, expr |-> NoCmd, ret |-> 0]

\* the context made by bc_context_new
NewContext ==
    /\ has_error = FALSE
    /\ error_type = "TypeError"
    /\ error_msg = ""
    /\ heap = <<>>
    /\ variables = [n \in VarNames |-> Undefined]
    /\ cmd = NoCmd
    /\ last = NoCmd
    /\ val = cnull_new
    /\ raised = NoErr
    /\ reported = NotReported
    /\ nsteps = 0

\* bc_context_new: mallocz leaves has_error FALSE, error_type 0, error_msg "";
\* the program was started without arguments and is in repl_run
Init ==
    /\ proc = Main("repl", <<>>)
    /\ NewContext

\* the process died: NULL dereference, abort or failed assertion
Crashed == val = CRASH

\* readline: one command line is read
repl_read(c) ==
    /\ proc.pc = "repl"
    /\ cmd = NoCmd
    /\ ~Crashed
    /\ nsteps < MaxSteps
    /\ Len(heap) + 2 <= MaxObjs
    /\ InModel(Hp(heap), variables, c)
    /\ cmd' = c
    /\ last' = NoCmd
    /\ val' = cnull_new
    /\ raised' = NoErr
    /\ reported' = NotReported
    /\ UNCHANGED <<has_error, error_type, error_msg, heap, variables, nsteps, proc>>

\* eval_buf after eval_formula returned a value: set_variable("_", val),
\* then cval_free(val)
save_result(S) ==
    LET S1 == set_variable(S, "_", S.v)
    IN [S1 EXCEPT !.h = cval_free(S1.h, S.v)]

\* eval_buf after eval_formula returned r: bc_get_error or set_variable("_").
\* Where the evaluation touched freed memory the process may die or go on
\* with what the memory held.
eval_buf_result(die, r) ==
    LET S == IF Bad(r.v) THEN r ELSE save_result(r)
        set == IF r.e.set THEN TRUE ELSE has_error
        type == IF r.e.set THEN r.e.type ELSE error_type
        msg == IF r.e.set THEN r.e.msg ELSE error_msg
    IN /\ die => S.h.uaf
       /\ raised' = r.e
       /\ error_type' = type
       /\ error_msg' = msg
       /\ IF r.v = CRASH \/ S.h.fault \/ die
          THEN /\ val' = CRASH
               /\ has_error' = set
               /\ reported' = NotReported
               /\ UNCHANGED <<variables, heap>>
          ELSE IF cval_is_error(r.v)
          THEN /\ val' = r.v
               /\ has_error' = FALSE
               /\ reported' = IF set THEN [type |-> type, msg |-> msg]
                                     ELSE [type |-> "No error", msg |-> ""]
               /\ variables' = S.vt
               /\ heap' = S.h.objs
          ELSE /\ val' = r.v
               /\ has_error' = set
               /\ reported' = NotReported
               /\ variables' = S.vt
               /\ heap' = S.h.objs

\* eval_buf: eval_formula on the command line, then the above
eval_buf(die) ==
    /\ cmd # NoCmd
    /\ eval_buf_result(die, call3("eval_statement", Hp(heap), variables, cmd))
    /\ last' = cmd
    /\ cmd' = NoCmd
    /\ nsteps' = nsteps + 1
    /\ proc' = IF proc.pc # "eval" THEN proc
               ELSE IF val' = CRASH THEN [proc EXCEPT !.pc = "died"]
               ELSE [proc EXCEPT !.pc = "exited",
                                 !.ret = IF cval_is_error(val') THEN 1 ELSE 0]

\* an element of argv: an option, or the text of an expression
Opt(s) == [s |-> s, e |-> NoCmd]
ExprArg(c) == [s |-> "expr", e |-> c]

\* one iteration of the while loop of main, or its end
main_option ==
    /\ proc.pc = "options"
    /\ LET i == proc.arg_idx + 1
           opt == proc.argv[proc.arg_idx].s
       IN proc' =
            IF proc.arg_idx > Len(proc.argv) THEN [proc EXCEPT !.pc = "start"]
            ELSE CASE opt = "-h" -> [proc EXCEPT !.pc = "exited", !.ret = 1]
                   [] opt = "-j" -> [proc EXCEPT !.js_mode = 1, !.arg_idx = i + 1]
                   [] opt = "-H" -> [proc EXCEPT !.hex_mode = 1, !.arg_idx = i + 1]
                   [] opt = "-t" -> [proc EXCEPT !.test_mode = 1, !.arg_idx = i + 1]
                   [] opt = "-e" ->
                        IF i <= Len(proc.argv)
                        THEN [proc EXCEPT !.expr = proc.argv[i].e, !.arg_idx = i + 1,
                                          !.pc = "start"]
                        ELSE [proc EXCEPT !.pc = "exited", !.ret = 1]
                   [] OTHER -> [proc EXCEPT !.arg_idx = i, !.pc = "start"]
    /\ UNCHANGED <<has_error, error_type, error_msg, heap, variables, cmd, last, val,
                   raised, reported, nsteps>>

\* main after the options: the self-test (which exits with 1 when a test
\* fails), or bc_context_new and then eval_buf on the expression or repl_run
main_start(passed) ==
    /\ proc.pc = "start"
    /\ IF proc.test_mode = 1
       THEN /\ proc' = [proc EXCEPT !.pc = "exited", !.ret = IF passed THEN 0 ELSE 1]
            /\ cmd' = cmd
       ELSE /\ passed
            /\ IF proc.expr # NoCmd
               THEN /\ proc' = [proc EXCEPT !.pc = "eval"]
                    /\ cmd' = proc.expr
               ELSE /\ proc' = [proc EXCEPT !.pc = "repl"]
                    /\ cmd' = cmd
    /\ UNCHANGED <<has_error, error_type, error_msg, heap, variables, last, val,
                   raised, reported, nsteps>>

\* readline_tty returned NULL: repl_run returns and main returns 0
repl_eof ==
    /\ proc.pc = "repl"
    /\ cmd = NoCmd
    /\ ~Crashed
    /\ proc' = [proc EXCEPT !.pc = "exited", !.ret = 0]
    /\ UNCHANGED <<has_error, error_type, error_msg, heap, variables, cmd, last, val,
                   raised, reported, nsteps>>

\* a session of operator and function command lines
Next ==
    \/ \E c \in Typed(nsteps) : repl_read(c)
    \/ \E die \in BOOLEAN : eval_buf(die)

Spec == Init /\ [][Next]_vars

\* a session of statements on containers
NextContainers ==
    \/ \E c \in ContainerMenu : repl_read(c)
    \/ \E die \in BOOLEAN : eval_buf(die)

SpecContainers == Init /\ [][NextContainers]_vars

\* a session of command lines on polynomials
NextPoly ==
    \/ \E c \in IF nsteps = 0 THEN PolyMenu ELSE PolyFollow : repl_read(c)
    \/ \E die \in BOOLEAN : eval_buf(die)

SpecPoly == Init /\ [][NextPoly]_vars

\* a session of command lines on series
NextSeries ==
    \/ \E c \in IF nsteps = 0 THEN SeriesMenu \cup SeriesSums \cup EmptySeriesMenu
                 ELSE IF nsteps = 1 THEN SeriesFollow \cup SeriesUnary
                 ELSE SeriesUnary : repl_read(c)
    \/ \E die \in BOOLEAN : eval_buf(die)

SpecSeries == Init /\ [][NextSeries]_vars

\* a session of command lines on matrices
NextMatrix ==
    \/ \E c \in IF nsteps = 0 THEN MatrixMenu ELSE MatrixFollow : repl_read(c)
    \/ \E die \in BOOLEAN : eval_buf(die)

SpecMatrix == Init /\ [][NextMatrix]_vars

\* a session of command lines on primality
NextPrime ==
    \/ \E c \in IF nsteps = 0 THEN PrimeMenu ELSE PrimeFollow : repl_read(c)
    \/ \E die \in BOOLEAN : eval_buf(die)

SpecPrime == Init /\ [][NextPrime]_vars

\* a session of command lines on tensors of several shapes
NextBroadcast ==
    \/ \E c \in IF nsteps = 0 THEN BroadcastMenu
                 ELSE IF nsteps = 1 THEN BroadcastFollow
                 ELSE {} : repl_read(c)
    \/ \E die \in BOOLEAN : eval_buf(die)

SpecBroadcast == Init /\ [][NextBroadcast]_vars

\* a session of command lines on gcd
NextGcd ==
    \/ \E c \in IF nsteps = 0 THEN GcdMenu ELSE GcdFollow : repl_read(c)
    \/ \E die \in BOOLEAN : eval_buf(die)

SpecGcd == Init /\ [][NextGcd]_vars

\* the expressions given after -e: 1 + 1 and 1 // 0
ExprMenu ==
    {Cmd("op2", "+", cint_from_int(1), cint_from_int(1)),
     Cmd("op2", "//", cint_from_int(1), cint_from_int(0))}

\* the elements of the command lines
Tokens == {Opt(o) : o \in {"-h", "-j", "-H", "-t", "-e"}} \cup {ExprArg(c) : c \in ExprMenu}

\* the command lines of at most MaxArgs elements in which the text of an
\* expression follows each -e that is not the last element
CommandLines ==
    {a \in UNION {[1..n -> Tokens] : n \in 0..MaxArgs} :
        \A i \in 1..(Len(a) - 1) : a[i].s = "-e" => a[i + 1].s = "expr"}

\* the program was started with a command line
InitMain ==
    /\ proc \in {Main("options", a) : a \in CommandLines}
    /\ NewContext

\* one run of the program
NextMain ==
    \/ main_option
    \/ \E passed \in BOOLEAN : main_start(passed)
    \/ repl_read(Cmd("op2", "+", cint_from_int(1), cint_from_int(1)))
    \/ \E die \in BOOLEAN : eval_buf(die)
    \/ repl_eof

SpecMain == InitMain /\ [][NextMain]_vars

\* a session of command lines on rounding
NextRound ==
    \/ \E c \in IF nsteps = 0 THEN RoundMenu ELSE RoundFollow : repl_read(c)
    \/ \E die \in BOOLEAN : eval_buf(die)

SpecRound == Init /\ [][NextRound]_vars

\* a session of assignments followed by operators on the variables
NextCounts ==
    \/ \E c \in IF nsteps < 2 THEN CountLets \cup CountMenu
                 ELSE IF nsteps < 4 THEN CountMenu
                 ELSE {} : repl_read(c)
    \/ \E die \in BOOLEAN : eval_buf(die)

SpecCounts == Init /\ [][NextCounts]_vars

\* a session of subscripts on tensor literals
NextIndex ==
    \/ \E c \in IF nsteps = 0 THEN IndexMenu ELSE {} : repl_read(c)
    \/ \E die \in BOOLEAN : eval_buf(die)

SpecIndex == Init /\ [][NextIndex]_vars

(***************************************************************************)
(* Properties.                                                             *)
(***************************************************************************)
\* the evaluation of the last command line returned the sentinel
Failed == last # NoCmd /\ val = BC_EXCEPTION
\* it returned a value
Returned == last # NoCmd /\ ~Bad(val)

\* C1: whenever an operation returns the exception sentinel, the pending-error
\* slot was set by that operation; the sentinel is never returned with the
\* slot left unset.
C1_SentinelSetsSlot == Failed => raised.set

\* the objects that names are bound to
Bound == {variables[n].id : n \in {m \in VarNames : IsRef(variables[m])}}

\* ids, and the objects that cells of ids refer to
WithCells(ids) ==
    ids \cup UNION {{heap[i].tab[k].id :
                        k \in {j \in DOMAIN heap[i].tab : IsRef(heap[i].tab[j])}} :
                    i \in ids}

RECURSIVE Closure(_)
Closure(ids) == IF WithCells(ids) = ids THEN ids ELSE Closure(WithCells(ids))

\* the objects reachable from a variable binding or a container cell
Reachable == Closure(Bound)

\* the number of references to object id held by bindings and by cells of
\* reachable objects
References(id) ==
    Cardinality({n \in VarNames : variables[n] = Ref(id)})
    + Cardinality({p \in Reachable \X (1..2) :
                      /\ p[2] \in DOMAIN heap[p[1]].tab
                      /\ heap[p[1]].tab[p[2]] = Ref(id)})

\* the value seen through name n: the cells of the object it is bound to
Seen(h, vt, n) == h[vt[n].id].tab

\* C2: after two names are bound to the same tensor or array, an indexed
\* assignment through one name does not change the value seen through the
\* other name.
C2_AssignmentKeepsAlias ==
    [][(/\ cmd # NoCmd
        /\ cmd.f = "setitem"
        /\ ~Bad(val'))
       => \A m \in VarNames \ {cmd.op, "_"} :
             (IsRef(variables[m]) /\ variables[m] = variables[cmd.op])
             => Seen(heap', variables', m) = Seen(heap, variables, m)]_vars

\* C3: every value reachable from a variable binding or a container cell has
\* reference count >= 1 between operations, and holds at least one count per
\* reference: nothing is freed while still referenced.
C3_CountsCoverReferences ==
    ~Crashed => \A id \in Reachable :
                   /\ heap[id].live
                   /\ heap[id].rc >= 1
                   /\ heap[id].rc >= References(id)

\* the Fraction values inside a value: itself, the parts of a Complex, the
\* cells of a Tensor
FracsIn(v) ==
    CASE v.tag = "Frac" -> {v}
      [] v.tag = "Complex" -> {x \in {v.re, v.im} : x.tag = "Frac"}
      [] v.tag = "Tensor" ->
           {x \in {v.tab[i] : i \in DOMAIN v.tab} : x.tag = "Frac"}
           \cup UNION {{x \in {v.tab[i].re, v.tab[i].im} : x.tag = "Frac"} :
                       i \in {j \in DOMAIN v.tab : v.tab[j].tag = "Complex"}}
      [] OTHER -> {}

Irreducible(x) == x.den > 0 /\ NatGcd(Abs(x.num), x.den) = 1

\* C4: every Fraction produced by an operation (constructor, //, +, -, *, /,
\* negation, abs, integer power, bestappr, conversion from Bool or Integer)
\* has den > 0 and gcd(|num|, den) = 1.
C4_FractionsIrreducible == Returned => \A x \in FracsIn(val) : Irreducible(x)

\* a command line produced a Fraction that is not an operand of it
C4_Witness ==
    /\ Returned
    /\ val.tag = "Frac"
    /\ last.f \in {"op2", "pow", "neg", "call"}
    /\ val.den > 1
    /\ val # last.x /\ val # last.y

ZeroInt(v) == v.tag = "Int" /\ v.num = 0
ZeroFrac(v) == v.tag = "Frac" /\ v.num = 0

\* the command line asks for a Fraction with a zero denominator
ZeroDenominator(c) ==
    \/ c.f = "call" /\ c.op = "Fraction" /\ c.x.tag = "Int" /\ ZeroInt(c.y)
    \/ c.f = "op2" /\ c.op = "//" /\ c.x.tag = "Int" /\ ZeroInt(c.y)
    \/ c.f = "op2" /\ c.op \in {"/", "%"} /\ c.x.tag = "Frac" /\ ZeroFrac(c.y)
    \/ c.f = "pow" /\ ZeroFrac(c.x) /\ c.y.tag = "Int" /\ c.y.num < 0

RangeErrorRaised == val = BC_EXCEPTION /\ raised.set /\ raised.type = "RangeError"
TypeErrorRaised == val = BC_EXCEPTION /\ raised.set /\ raised.type = "TypeError"

\* C5: every operation that would produce a Fraction with zero denominator
\* (Fraction(n, 0), n // 0, / or % of a Fraction by a zero Fraction, a zero
\* Fraction to a negative Integer power) returns the sentinel with a
\* RangeError, and no Fraction with den = 0 is constructed.
C5_ZeroDenominatorRangeError ==
    /\ (last # NoCmd /\ ZeroDenominator(last)) => RangeErrorRaised
    /\ Returned => \A x \in FracsIn(val) : x.den # 0

CompareOps == {"==", "!=", "<", "<=", ">", ">="}

\* C6: for every pair of operand values, each of the six comparison
\* operators produces a Bool.
C6_ComparisonsGiveBool ==
    (last.f = "op2" /\ last.op \in CompareOps) => val.tag = "Bool"

\* the kind of the numbers a value is made of
ElemKind(v) ==
    CASE v.tag = "Complex" -> v.elem.tag
      [] v.tag = "Tensor" ->
           IF v.elem.tag = "Complex" THEN v.elem.elem.tag ELSE v.elem.tag
      [] OTHER -> v.tag

MixesFloatDecimal(c) ==
    /\ c.f \in {"op2", "pow"}
    /\ {ElemKind(c.x), ElemKind(c.y)} = {"Float", "Dec"}

\* C7: a binary operation that combines a Float with a Decimal, directly or
\* as the element types of Complex or Tensor operands, returns the sentinel
\* with a TypeError.
C7_FloatDecimalTypeError == MixesFloatDecimal(last) => TypeErrorRaised

ArithOps == {"+", "-", "*", "/", "//", "%"}

Arithmetic(c) == (c.f = "op2" /\ c.op \in ArithOps) \/ c.f \in {"pow", "neg"}

\* the Integer 0 or 1 in place of a Bool
AsInteger(v) == IF v.tag = "Bool" THEN cint_from_int(v.num) ELSE v
Promoted(c) == [c EXCEPT !.x = AsInteger(@), !.y = AsInteger(@)]

\* C8: in every arithmetic operation (+, -, *, /, //, %, power, unary
\* negation) a Bool operand behaves as the Integer 0 or 1, also when every
\* operand is a Bool: where the operation on the Integers gives a value, the
\* operation on the Bools gives that value.
C8_BoolActsAsInteger ==
    (/\ Arithmetic(last)
     /\ last.x.tag = "Bool" \/ last.y.tag = "Bool"
     /\ ~Bad(eval_expr(variables, Promoted(last)).v))
    => val = eval_expr(variables, Promoted(last)).v

StringOperation(c) ==
    /\ c.f \in {"op2", "pow"}
    /\ c.x.tag = "String" \/ c.y.tag = "String"
    /\ ~(c.f = "op2" /\ c.op = "+" /\ c.x.tag = "String" /\ c.y.tag = "String")

\* C9: a binary operation with a String operand, other than String + String,
\* returns the sentinel with a TypeError.
C9_StringTypeError == StringOperation(last) => TypeErrorRaised

\* C10: the error that bc_get_error reports after a failed evaluation was set
\* during that evaluation; the read clears the slot; an evaluation that
\* returns a value leaves the slot unset.
C10_ReportedErrorIsFresh ==
    /\ (last # NoCmd /\ reported # NotReported)
       => /\ raised.set
          /\ reported = [type |-> raised.type, msg |-> raised.msg]
          /\ ~has_error
    /\ Returned => ~has_error

\* the objects that cells of object id refer to
Cells(id) ==
    {heap[id].tab[k].id : k \in {j \in DOMAIN heap[id].tab : IsRef(heap[id].tab[j])}}

\* the objects that object id contains, directly or through other values
Inside(id) == Closure(Cells(id))

\* C11: no sequence of operations, indexed assignment such as a[0] = a on an
\* array included, produces a value that contains itself directly or through
\* other values.
C11_NoValueContainsItself ==
    ~Crashed => \A id \in DOMAIN heap : heap[id].live => id \notin Inside(id)

\* the polynomials among the result and the bindings
PolysIn == {v \in {val} \cup {variables[n] : n \in VarNames} : v.tag = "Poly"}

\* c is a zero coefficient
IsZero(c) ==
    IF c.tag = "Complex" THEN c.re.num = 0 /\ c.re.den # 0 /\ c.im.num = 0 /\ c.im.den # 0
    ELSE c.num = 0 /\ c.den # 0

\* len = 1 or the leading coefficient is nonzero
Trimmed(p) == Len(p.tab) = 1 \/ ~IsZero(p.tab[Len(p.tab)])

\* C12: every Polynomial value produced by any operation, the Polynomial
\* constructor applied to an array or a 1-D tensor included, is trimmed:
\* len = 1 or the leading coefficient is nonzero.
C12_PolynomialsTrimmed == \A p \in PolysIn : Trimmed(p)

\* the last command line was f applied to the call g(e)
Nested(f, g) ==
    /\ last.f = "call"
    /\ last.op = f
    /\ last.x.tag = "Call"
    /\ last.x.name = g

\* C16: for every polynomial p, over any element type, deriv(integ(p)) = p.
C16_DerivOfIntegIsIdentity ==
    (/\ Nested("deriv", "integ")
     /\ call2("operand", variables, last.x.x).v.tag = "Poly")
    => /\ ~Bad(val)
       /\ cval_cmp_eq(val, call2("operand", variables, last.x.x).v).v = cbool_new(TRUE)

\* C17: for every value v for which Polynomial(v) succeeds,
\* Polynomial(Polynomial(v)) succeeds and equals Polynomial(v).
C17_PolynomialIdempotent ==
    (/\ Nested("Polynomial", "Polynomial")
     /\ ~Bad(call2("operand", variables, last.x).v))
    => /\ ~Bad(val)
       /\ val = call2("operand", variables, last.x).v

\* the series held by the context: the last value and the variables
SeriesIn ==
    {v \in {val} \cup {variables[n] : n \in VarNames} : v # Undefined /\ v.tag = "Ser"}

\* C13: every Series that a command line returns has a first stored
\* coefficient different from zero, or no coefficient at all
C13_SeriesLeadingNonzero ==
    \A s \in SeriesIn : Len(s.tab) = 0 \/ ~IsZero(s.tab[1])

\* the last command line was the sum of two sub-expressions that are series
SumOfSeries ==
    /\ last.f = "op2"
    /\ last.op = "+"
    /\ last.x.tag = "Op2"
    /\ last.y.tag = "Op2"
    /\ call2("operand", variables, last.x).v.tag = "Ser"
    /\ call2("operand", variables, last.y).v.tag = "Ser"

\* the order up to which a series is known: emin + len
OrderOf(s) == s.emin + Len(s.tab)
min_int(a, b) == IF a < b THEN a ELSE b

\* what a sum of series s1 + s2 is required to be, by the predicate ok
SumSatisfies(ok(_, _, _)) ==
    SumOfSeries =>
        /\ ~Bad(val)
        /\ val.tag = "Ser"
        /\ ok(call2("operand", variables, last.x).v,
              call2("operand", variables, last.y).v, val)

SquareOf(m, tags) ==
    /\ m.tag = "Tensor"
    /\ Len(m.dims) = 2
    /\ m.dims[1] = m.dims[2]
    /\ m.dims[1] \in 1..3
    /\ m.elem.tag \in tags

\* the cell of line i and column j of a matrix, as a rational
Cell(m, i, j) == QOf(m.tab[EP(i, j, m.dims[1])])

\* the determinant of a square matrix of 1, 2 or 3 lines
Det(m) ==
    LET D2(a, b, c, d) == QSub(QMul(a, d), QMul(b, c))
    IN CASE m.dims[1] = 1 -> Cell(m, 0, 0)
         [] m.dims[1] = 2 -> D2(Cell(m, 0, 0), Cell(m, 0, 1), Cell(m, 1, 0), Cell(m, 1, 1))
         [] OTHER ->
              QAdd(QSub(QMul(Cell(m, 0, 0),
                             D2(Cell(m, 1, 1), Cell(m, 1, 2), Cell(m, 2, 1), Cell(m, 2, 2))),
                        QMul(Cell(m, 0, 1),
                             D2(Cell(m, 1, 0), Cell(m, 1, 2), Cell(m, 2, 0), Cell(m, 2, 2)))),
                   QMul(Cell(m, 0, 2),
                        D2(Cell(m, 1, 0), Cell(m, 1, 1), Cell(m, 2, 0), Cell(m, 2, 1))))

Singular(m) == Det(m).num = 0

\* v is the n x n identity matrix, cell by cell
IsIdentity(v, n) ==
    /\ v.tag = "Tensor"
    /\ v.dims = <<n, n>>
    /\ \A c \in DOMAIN v.tab :
          /\ v.tab[c].tag \in {"Int", "Frac"}
          /\ QOf(v.tab[c]) = [num |-> IF (c - 1) \div n = (c - 1) % n THEN 1 ELSE 0,
                              den |-> 1]

\* the last command line was inverse(m) for a tensor literal m
InverseOfLiteral == last.f = "call" /\ last.op = "inverse" /\ last.x.tag = "Tensor"
\* the last command line was m * inverse(m) for a tensor literal m
TimesInverseOfLiteral ==
    /\ last.f = "op2"
    /\ last.op = "*"
    /\ last.x.tag = "Tensor"
    /\ last.y = Call("inverse", last.x)

\* C14: for every invertible square matrix M with Fraction elements,
\* inverse(M) succeeds and M * inverse(M) equals the identity matrix exactly
C14_InverseOfFractionMatrix ==
    (/\ InverseOfLiteral \/ TimesInverseOfLiteral
     /\ SquareOf(last.x, {"Frac"})
     /\ ~Singular(last.x))
    => /\ ~Bad(val)
       /\ val.tag = "Tensor"
       /\ TimesInverseOfLiteral => IsIdentity(val, last.x.dims[1])

\* C15: for every singular square matrix M, inverse(M) returns the sentinel
\* with a RangeError
C15_SingularMatrixRangeError ==
    (/\ InverseOfLiteral
     /\ SquareOf(last.x, {"Int", "Frac"})
     /\ Singular(last.x))
    => /\ val = BC_EXCEPTION
       /\ raised.set
       /\ raised.type = "RangeError"

\* n is a prime number
IsPrimeNumber(n) == n >= 2 /\ \A d \in 2..(n - 1) : n % d # 0
\* the squared last entry of small_primes
TrialLimit == LET p == small_primes[Len(small_primes)] IN p * p
\* the last command line was isprime(n) or isprime(n, t) for integer
\* literals, n below the limit of trial division
IsPrimeOfLiteral ==
    /\ last.f = "call"
    /\ last.op = "isprime"
    /\ last.x.tag = "Int"
    /\ last.y = NoArg \/ last.y.tag = "Int"
    /\ last.x.num < TrialLimit

\* C20: for every integer n < 499^2, isprime(n) returns true exactly when n
\* is prime, and false for every n < 2
C20_IsPrimeByTrialDivision ==
    IsPrimeOfLiteral => val = cbool_new(IsPrimeNumber(last.x.num))

\* the last command line was an elementwise operator on two tensor literals
BroadcastOp ==
    /\ last.f = "op2"
    /\ last.op \in ElementwiseOps
    /\ last.x.tag = "Tensor"
    /\ last.y.tag = "Tensor"
\* the extent of shape s on axis i, after padding with 1s on the high axes
Extent(s, i) == IF i > Len(s) THEN 1 ELSE s[i]
\* the shapes are broadcast-compatible
Compatible(s1, s2) ==
    \A i \in 1..max_int(Len(s1), Len(s2)) :
        Extent(s1, i) = Extent(s2, i) \/ Extent(s1, i) = 1 \/ Extent(s2, i) = 1
\* the larger extent on each axis
Larger(s1, s2) ==
    [i \in 1..max_int(Len(s1), Len(s2)) |-> max_int(Extent(s1, i), Extent(s2, i))]
\* the TypeError of tensor_op2 on the shapes was raised
ShapeError ==
    /\ val = BC_EXCEPTION
    /\ raised.set
    /\ raised.type = "TypeError"
    /\ raised.msg = "incompatible tensor dimensions"

\* C19 (as stated): an elementwise binary operation on two tensors succeeds
\* exactly when the shapes are broadcast-compatible, and the result's extent
\* on each axis is the larger of the pair
C19_BroadcastSucceedsIffCompatible ==
    BroadcastOp =>
        IF Compatible(last.x.dims, last.y.dims)
        THEN /\ ~Bad(val)
             /\ val.tag = "Tensor"
             /\ val.dims = Larger(last.x.dims, last.y.dims)
        ELSE val = BC_EXCEPTION

\* C19 (amended): the operation raises the TypeError on the shapes exactly
\* when the shapes are not broadcast-compatible and the element types
\* combine; when it returns, the result is a tensor whose extent on each axis
\* is the larger of the pair; + and - on Integer and Fraction cells return
\* exactly when the shapes are broadcast-compatible
C19_BroadcastShapes ==
    BroadcastOp =>
        /\ ShapeError <=> ~Compatible(last.x.dims, last.y.dims)
        /\ ~Bad(val) => /\ val.tag = "Tensor"
                        /\ val.dims = Larger(last.x.dims, last.y.dims)
        /\ last.op \in {"+", "-"} => (~Bad(val) <=> Compatible(last.x.dims, last.y.dims))

\* a tensor of one axis and a tensor of two axes gave a result larger than
\* both
C19_Witness ==
    /\ BroadcastOp
    /\ Len(last.x.dims) # Len(last.y.dims)
    /\ ~Bad(val)
    /\ val.tag = "Tensor"
    /\ tensor_size(val.dims) > tensor_size(last.x.dims)
    /\ tensor_size(val.dims) > tensor_size(last.y.dims)

\* the last command line was gcd(a, b) for Integer literals a and b, not
\* both zero
GcdOfLiterals ==
    /\ last.f = "call"
    /\ last.op = "gcd"
    /\ last.x.tag = "Int"
    /\ last.y.tag = "Int"
    /\ last.x.num # 0 \/ last.y.num # 0

\* C21: for all Integers a and b not both zero, of any signs, gcd(a, b)
\* returns the positive greatest common divisor
C21_GcdPositive ==
    GcdOfLiterals => val = cint_from_int(NatGcd(Abs(last.x.num), Abs(last.y.num)))

\* the last command line was gcd(x, y), and x and y evaluate to values
\* exactly one of which has the given kind
GcdExactlyOne(kind) ==
    /\ last.f = "call"
    /\ last.op = "gcd"
    /\ last.x.tag # "Var"
    /\ last.y.tag # "Var"
    /\ LET x == call2("operand", variables, last.x).v
           y == call2("operand", variables, last.y).v
       IN /\ ~Bad(x)
          /\ ~Bad(y)
          /\ (x.tag = kind) # (y.tag = kind)

\* C29: gcd(a, b) where exactly one argument is a Polynomial, or exactly one
\* argument is an Integer, returns the sentinel with a TypeError whichever
\* argument comes first
C29_GcdMixedTypeError ==
    (GcdExactlyOne("Poly") \/ GcdExactlyOne("Int"))
    => /\ val = BC_EXCEPTION
       /\ raised.set
       /\ raised.type = "TypeError"

\* the command lines -e EXPR, alone or preceded by -j and/or -H
EvalLines ==
    {pre \o <<Opt("-e"), ExprArg(c)>> :
        pre \in {<<>>, <<Opt("-j")>>, <<Opt("-H")>>, <<Opt("-j"), Opt("-H")>>,
                 <<Opt("-H"), Opt("-j")>>},
        c \in ExprMenu}

\* C22: when the command line contains -e EXPR, alone or preceded by -j
\* and/or -H, the program evaluates EXPR and exits without entering the
\* REPL, with exit code 0 if the evaluation succeeded and 1 if it produced
\* an error
C22_EvalAndExit ==
    proc.argv \in EvalLines
    => /\ proc.pc # "repl"
       /\ proc.pc = "exited"
            => /\ last = proc.argv[Len(proc.argv)].e
               /\ proc.ret = IF cval_is_error(val) THEN 1 ELSE 0

\* C26: trunc, floor, ceil and round applied to an Integer return that
\* Integer; they never terminate the process
C26_RoundingOfInteger ==
    (/\ last.f = "call"
     /\ last.op \in RoundFns
     /\ last.x.tag = "Int")
    => val = last.x

\* C30: every conversion to Float returns either the sentinel or a value
\* whose kind tag is Float (checked on Float(v); a Bool converts to a
\* Float-tagged 0.0 or 1.0)
C30_FloatConversionGivesFloat ==
    (last.f = "call" /\ last.op = "Float")
    => \/ val = BC_EXCEPTION
       \/ val.tag = "Float"

\* the last command line was exp or log of a series without known
\* coefficients
OfEmptySeries ==
    /\ last.f = "call"
    /\ last.op \in {"exp", "log"}
    /\ last.x.tag = "Call"
    /\ LET x == call2("operand", variables, last.x).v
       IN /\ ~Bad(x)
          /\ x.tag = "Ser"
          /\ Len(x.tab) = 0

\* C28: exp and log applied to a series with no known coefficients never
\* read a coefficient that does not exist; they return a series or a
\* RangeError
C28_ExpLogOfEmptySeries ==
    OfEmptySeries
    => \/ val.tag = "Ser"
       \/ /\ val = BC_EXCEPTION
          /\ raised.set
          /\ raised.type = "RangeError"

\* the last command line was t[i, ...] with no more subscripts than axes
IndexCmd == last.f = "index" /\ Len(last.y.idx) <= Len(last.x.dims)
\* the axis (counted from 1) that subscript k of the last line is for
AxisOf(k) == Len(last.x.dims) - k + 1
\* every subscript i on an axis of extent d has -d <= i < d
SubscriptsInRange ==
    \A k \in 1..Len(last.y.idx) :
        /\ 0 - last.x.dims[AxisOf(k)] <= last.y.idx[k].num
        /\ last.y.idx[k].num < last.x.dims[AxisOf(k)]
RECURSIVE Addressed(_)
\* the place in the table of the cell that the first k subscripts address,
\* a negative subscript i counting as i + d
Addressed(k) ==
    IF k = 0 THEN 0
    ELSE LET d == last.x.dims[AxisOf(k)]
             i == last.y.idx[k].num
         IN (IF i < 0 THEN i + d ELSE i) * tensor_size(SubSeq(last.x.dims, 1, AxisOf(k) - 1))
            + Addressed(k - 1)

\* C27: on a tensor axis of extent d an integer index i with -d <= i < 0
\* addresses element i + d, and any index outside [-d, d) yields a
\* RangeError; the outcome is fixed by the tensor's shape and the index
C27_TensorIndex ==
    IndexCmd =>
        IF SubscriptsInRange
        THEN /\ ~Bad(val)
             /\ Len(last.y.idx) = Len(last.x.dims)
                    => val = last.x.tab[Addressed(Len(last.y.idx)) + 1]
        ELSE /\ val = BC_EXCEPTION
             /\ raised.set
             /\ raised.type = "RangeError"

\* the results of callees that the operation of the last command line hands
\* to another operation: the quotient that cfrac_op2 gives to cval_floor for
\* %, and the sums, differences and products of the parts that complex_op2
\* gives to complex_new, cval_sub and cval_add
HandedOn ==
    IF last.f # "op2" THEN {}
    ELSE IF last.op = "%" /\ last.x.tag = "Frac" /\ last.y.tag = "Frac"
         THEN {cval_div(last.x, last.y).v}
    ELSE IF last.x.tag = "Complex" /\ last.y.tag = "Complex"
         THEN CASE last.op = "+" -> {cval_add(last.x.re, last.y.re).v,
                                     cval_add(last.x.im, last.y.im).v}
                [] last.op = "-" -> {cval_sub(last.x.re, last.y.re).v,
                                     cval_sub(last.x.im, last.y.im).v}
                [] last.op = "*" -> {cval_mul(last.x.re, last.y.re).v,
                                     cval_mul(last.x.im, last.y.im).v,
                                     cval_mul(last.x.re, last.y.im).v,
                                     cval_mul(last.x.im, last.y.re).v}
                [] OTHER -> {}
    ELSE {}

\* C23: no operation is invoked with the exception sentinel as an operand:
\* on Fraction % and on complex +, - and * the result of a callee that is
\* passed on to another operation is not the sentinel
C23_NoSentinelOperand == \A v \in HandedOn : ~cval_is_error(v)

\* the count of every object changes over the step by as much as the number
\* of references to it
CountsFollowReferences ==
    \A id \in DOMAIN heap :
        heap'[id].rc - heap[id].rc = References(id)' - References(id)
\* the step evaluates x op y on variables
BinaryStep == cmd # NoCmd /\ cmd.f = "op2" /\ cmd.op \in ObjectOps /\ val' # CRASH
\* reading an operand failed: the evaluation left by longjmp
OperandFailed == val' = BC_EXCEPTION /\ raised'.set /\ raised'.type = "ReferenceError"

\* C24: on every path of an operation, error paths included, the count it
\* owns on each argument is released or transferred exactly once: after
\* x op y, whose operands were all evaluated, no object has gained or lost a
\* count without a reference
C24_ArgumentsReleasedOnce ==
    [][(BinaryStep /\ ~OperandFailed) => CountsFollowReferences]_vars

\* C25: when the evaluation of an expression leaves by non-local exit, every
\* value the evaluator holds is released: after x op y whose right operand
\* could not be read, the left operand has the count it had before
C25_HeldValuesReleased ==
    [][(BinaryStep /\ OperandFailed) => CountsFollowReferences]_vars
====
